---- MODULE Spec2Model ----
(***************************************************************************)
(* Transactional storage core of gosqlite: the ARC page cache              *)
(* (arc_cache.go), the pager (pager.go, second definition in               *)
(* unnamed/part_013), the transaction manager (transaction_manager.go)     *)
(* and the lock table of the transaction engine (build_release.go).        *)
(*                                                                         *)
(* A page's bytes are abstracted to one value of Vals; 0 is the zero page. *)
(* A container/list element is modelled by its key and by whether its      *)
(* Value is an *arcEntry (wrapped = FALSE) or a *list.Element that was     *)
(* pushed with PushFront(elem) (wrapped = TRUE); the index maps hold the   *)
(* bytes of the entry their element refers to.                             *)
(***************************************************************************)
EXTENDS Integers, Sequences, FiniteSets, TLC

\* ------------------------------------------------------------------ bounds
MaxPage == 3
MaxPagerPage == 2
MaxVal == 1
Capacity == 1
MaxShared == 2
MaxSteps == 9
MaxRWSteps == 7
MaxARCSteps == 6
MaxSPSteps == 6
MaxWriteSteps == 4
MaxFlushSteps == 8
MaxSavepoints == 2

\* ------------------------------------------------------- program constants
NoLock == 0
SharedLock == 1
ReservedLock == 2
PendingLock == 3
ExclusiveLock == 4

Nil == -1

\* Pager.pageSize, the smallest size NewPager accepts
pageSize == 512

Pages == 1..MaxPage
PagerPages == 1..MaxPagerPage
Vals == 0..MaxVal
TxIds == {"t1", "t2"}
SpNames == {"a", "b"}
LockTypes == {SharedLock, ReservedLock, PendingLock, ExclusiveLock}

min(a, b) == IF a < b THEN a ELSE b
max(a, b) == IF a > b THEN a ELSE b

\* ------------------------------------------------------------ container/list
Back(l) == l[Len(l)]

PushFront(l, e) == <<e>> \o l

RECURSIVE RemoveKey(_, _)
RemoveKey(l, k) ==
    IF l = <<>> THEN <<>>
    ELSE IF Head(l).key = k THEN Tail(l)
    ELSE <<Head(l)>> \o RemoveKey(Tail(l), k)

RemoveBack(l) == SubSeq(l, 1, Len(l) - 1)

Elem(k) == [key |-> k, wrapped |-> FALSE]
Wrapper(k) == [key |-> k, wrapped |-> TRUE]

\* The page ids a list holds.
Keys(l) == {l[i].key : i \in 1..Len(l)}

IsWrapped(l, k) == \E i \in 1..Len(l) : l[i].key = k /\ l[i].wrapped

\* list.MoveToFront(e): nothing happens when e is not an element of the list,
\* which is the case of a map element whose wrapper is what the list holds.
MoveToFront(l, k) ==
    IF IsWrapped(l, k) THEN l ELSE PushFront(RemoveKey(l, k), Elem(k))

\* ------------------------------------------------------------------ ARCCache
NoMap == [i \in Pages |-> Nil]

NewARCCache ==
    [t1_lru |-> <<>>, t1_map |-> NoMap,
     t2_lru |-> <<>>, t2_map |-> NoMap,
     b1_lru |-> <<>>, b1_map |-> NoMap,
     b2_lru |-> <<>>, b2_map |-> NoMap,
     p |-> 0, panic |-> FALSE]

\* replace: oldest.Value.(*arcEntry) panics on a wrapper element.
replace(c, b2Hit) ==
    IF Len(c.t1_lru) > 0
       /\ (Len(c.t1_lru) > c.p
           \/ (Len(c.t1_lru) = c.p /\ Len(c.b2_lru) > 0 /\ ~b2Hit))
    THEN LET oldest == Back(c.t1_lru) IN
         IF oldest.wrapped THEN [c EXCEPT !.panic = TRUE]
         ELSE [c EXCEPT !.t1_map[oldest.key] = Nil,
                        !.t1_lru = RemoveBack(@),
                        !.b1_lru = PushFront(@, Wrapper(oldest.key)),
                        !.b1_map[oldest.key] = c.t1_map[oldest.key]]
    ELSE IF Len(c.t2_lru) > 0
    THEN LET oldest == Back(c.t2_lru) IN
         IF oldest.wrapped THEN [c EXCEPT !.panic = TRUE]
         ELSE [c EXCEPT !.t2_map[oldest.key] = Nil,
                        !.t2_lru = RemoveBack(@),
                        !.b2_lru = PushFront(@, Wrapper(oldest.key)),
                        !.b2_map[oldest.key] = c.t2_map[oldest.key]]
    ELSE c

\* A variant of the B1 adaptation that forgets the cap at capacity.
AdaptB1Uncapped(c) ==
    [c EXCEPT !.p = c.p + max(1, Len(c.b2_lru) \div Len(c.b1_lru))]

AdaptB1(c) ==
    [c EXCEPT !.p = min(Capacity, c.p + max(1, Len(c.b2_lru) \div Len(c.b1_lru)))]

AdaptB2(c) ==
    [c EXCEPT !.p = max(0, c.p - max(1, Len(c.b1_lru) \div Len(c.b2_lru)))]

\* ARCCache.Get: the cache after the call, whether it reported a hit, and the
\* bytes it handed back.
Get(c, id) ==
    IF c.t1_map[id] # Nil THEN
        [c |-> [c EXCEPT !.t1_lru = RemoveKey(@, id),
                         !.t1_map[id] = Nil,
                         !.t2_lru = PushFront(@, Wrapper(id)),
                         !.t2_map[id] = c.t1_map[id]],
         ok |-> TRUE, page |-> c.t1_map[id]]
    ELSE IF c.t2_map[id] # Nil THEN
        [c |-> [c EXCEPT !.t2_lru = MoveToFront(@, id)],
         ok |-> TRUE, page |-> c.t2_map[id]]
    ELSE IF c.b1_map[id] # Nil THEN
        LET r == replace(AdaptB1(c), FALSE) IN
        IF r.panic THEN [c |-> r, ok |-> FALSE, page |-> Nil]
        ELSE [c |-> [r EXCEPT !.b1_map[id] = Nil,
                              !.t2_lru = PushFront(@, Elem(id)),
                              !.t2_map[id] = c.b1_map[id]],
              ok |-> TRUE, page |-> c.b1_map[id]]
    ELSE IF c.b2_map[id] # Nil THEN
        LET r == replace(AdaptB2(c), TRUE) IN
        IF r.panic THEN [c |-> r, ok |-> FALSE, page |-> Nil]
        ELSE [c |-> [r EXCEPT !.b2_map[id] = Nil,
                              !.t2_lru = PushFront(@, Elem(id)),
                              !.t2_map[id] = c.b2_map[id]],
              ok |-> TRUE, page |-> c.b2_map[id]]
    ELSE [c |-> c, ok |-> FALSE, page |-> Nil]

\* The new-page branch of Put, lines 136-151: B1's LRU to B2, then T1's LRU to B1.
PutMakeRoom(c) ==
    IF Len(c.t1_lru) + Len(c.b1_lru) # Capacity THEN c
    ELSE
        LET c1 == IF Len(c.t1_lru) < Capacity
                  THEN LET oldest == Back(c.b1_lru) IN
                       IF oldest.wrapped THEN [c EXCEPT !.panic = TRUE]
                       ELSE [c EXCEPT !.b1_map[oldest.key] = Nil,
                                      !.b1_lru = RemoveBack(@),
                                      !.b2_lru = PushFront(@, Wrapper(oldest.key)),
                                      !.b2_map[oldest.key] = c.b1_map[oldest.key]]
                  ELSE c
        IN  IF c1.panic \/ Len(c1.t1_lru) = 0 THEN [c1 EXCEPT !.panic = TRUE]
            ELSE LET oldest == Back(c1.t1_lru) IN
                 [c1 EXCEPT !.t1_map[oldest.key] = Nil,
                            !.t1_lru = RemoveBack(@),
                            !.b1_lru = PushFront(@, Wrapper(oldest.key)),
                            !.b1_map[oldest.key] = c1.t1_map[oldest.key]]

\* ARCCache.Put
Put(c, id, page) ==
    IF c.t1_map[id] # Nil THEN
        [c EXCEPT !.t1_lru = RemoveKey(@, id),
                  !.t1_map[id] = Nil,
                  !.t2_lru = PushFront(@, Elem(id)),
                  !.t2_map[id] = page]
    ELSE IF c.t2_map[id] # Nil THEN
        [c EXCEPT !.t2_lru = MoveToFront(@, id),
                  !.t2_map[id] = page]
    ELSE IF c.b1_map[id] # Nil THEN
        LET r == replace(AdaptB1(c), FALSE) IN
        IF r.panic THEN r
        ELSE [r EXCEPT !.b1_map[id] = Nil,
                       !.t2_lru = PushFront(@, Elem(id)),
                       !.t2_map[id] = page]
    ELSE IF c.b2_map[id] # Nil THEN
        LET r == replace(AdaptB2(c), TRUE) IN
        IF r.panic THEN r
        ELSE [r EXCEPT !.b2_map[id] = Nil,
                       !.t2_lru = PushFront(@, Elem(id)),
                       !.t2_map[id] = page]
    ELSE
        LET c1 == PutMakeRoom(c) IN
        IF c1.panic THEN c1
        ELSE LET c2 == IF Len(c1.t1_lru) + Len(c1.t2_lru) >= Capacity
                       THEN replace(c1, FALSE) ELSE c1
             IN  IF c2.panic THEN c2
                 ELSE [c2 EXCEPT !.t1_lru = PushFront(@, Elem(id)),
                                 !.t1_map[id] = page]

\* ---------------------------------------------------------------------- state
VARIABLES
    up,                 \* the process is running and the database is open
    cache,              \* Pager.cache
    dirtyPages,         \* Pager.dirtyPages
    dbSize,             \* Pager.dbSize
    file,               \* bytes of the main file, page by page (zero past the end)
    fileSize,           \* size of the main file in pages
    disk,               \* the file as of its last successful Sync
    rd,                 \* the GetPage call in flight
    fl,                 \* the FlushDirtyPages (or Close) call in flight
    activeTransactions, \* TransactionManager.activeTransactions
    txState,            \* Transaction.State of the latest transaction of each id
    tmpc,               \* position of each id's CommitTransaction call
    fileLocks,          \* TransactionEngine.fileLocks
    savepointStacks,    \* TransactionEngine.savepointStacks
    ret,                \* what the last call returned
    txWrites,           \* history: the pages each transaction wrote, with the bytes
    txBegin,            \* history: number of commits before each transaction began
    lastBegun,          \* history: the active transaction that began last
    commitLog,          \* history: the writes of the committed transactions, in order
    latest,             \* history: the bytes of the latest WritePage of each page since the open
    sandbox,            \* SandboxedVFS.allowedPaths, and the paths given to build it
    accessed,           \* history: the resident page ids by their last direct Put or Get, latest first
    steps               \* number of calls and steps taken so far

pagerVars == <<cache, dirtyPages, dbSize, file, fileSize, disk, rd, fl>>
tmVars == <<activeTransactions, txState, tmpc, fileLocks, savepointStacks>>
histVars == <<txWrites, txBegin, lastBegun, commitLog, latest>>
vars == <<up, pagerVars, tmVars, ret, histVars, steps, sandbox, accessed>>

NoLocks == [present |-> FALSE, shared |-> 0, exclusive |-> 0]
NoRd == [pc |-> "idle", tx |-> "", id |-> 0, buf |-> Nil]
\* written is history: the ids the call in flight has written so far.
NoFl == [pc |-> "idle", ids |-> <<>>, written |-> <<>>]
NoWrites == [i \in Pages |-> Nil]
\* No SandboxedVFS has been built.
NoSandbox == [built |-> FALSE, allowedPaths |-> {}, given |-> <<>>]
Ret(op, tx, id, err, page) ==
    [op |-> op, tx |-> tx, id |-> id, err |-> err, page |-> page]
\* What a call that takes a savepoint name returned.
RetName(op, tx, name, err) ==
    [op |-> op, tx |-> tx, id |-> 0, err |-> err, page |-> Nil, name |-> name]
\* ret after a step in which no call returned
NoRet == Ret("", "", 0, FALSE, Nil)
\* The youngest of the transactions of S when S has at most one member.
Remaining(S) == IF S = {} THEN "" ELSE CHOOSE t \in S : TRUE

Init ==
    /\ up = TRUE
    /\ cache = NewARCCache
    /\ dirtyPages = {}
    /\ dbSize = 0
    /\ file = [i \in Pages |-> 0]
    /\ fileSize = 0
    /\ disk = [i \in Pages |-> 0]
    /\ rd = NoRd
    /\ fl = NoFl
    /\ activeTransactions = {}
    /\ txState = [t \in TxIds |-> "None"]
    /\ tmpc = [t \in TxIds |-> "idle"]
    /\ fileLocks = [o \in TxIds |-> NoLocks]
    /\ savepointStacks = [t \in TxIds |-> <<>>]
    /\ ret = Ret("open", "", 0, FALSE, Nil)
    /\ txWrites = [t \in TxIds |-> NoWrites]
    /\ txBegin = [t \in TxIds |-> 0]
    /\ lastBegun = ""
    /\ commitLog = <<>>
    /\ latest = NoWrites
    /\ steps = 0
    /\ sandbox = NoSandbox
    /\ accessed = <<>>

\* ----------------------------------------------------------- TransactionEngine
\* A variant of isLockedByOthers that looks at the shared count of the others.
isLockedByOthersShared(locks, currentOwner) ==
    \E o \in TxIds : o # currentOwner /\ locks[o].present /\ locks[o].shared > 0

\* A variant of AcquireLock that drops the owner's entry when it refuses
\* the Exclusive lock.
EngineAcquireDropping(locks, ownerID, lockType) ==
    LET l0 == [locks EXCEPT ![ownerID].present = TRUE] IN
    IF lockType = SharedLock THEN
        [locks |-> [l0 EXCEPT ![ownerID].shared = @ + 1], err |-> FALSE]
    ELSE IF lockType = ExclusiveLock THEN
        IF (\E o \in TxIds : o # ownerID /\ l0[o].present /\ l0[o].exclusive > 0)
           \/ (\E o \in TxIds : o # ownerID /\ l0[o].present /\ l0[o].shared > 0)
        THEN [locks |-> [l0 EXCEPT ![ownerID] = NoLocks], err |-> TRUE]
        ELSE [locks |-> [l0 EXCEPT ![ownerID].exclusive = 1], err |-> FALSE]
    ELSE [locks |-> l0, err |-> TRUE]

isLockedByOthers(locks, currentOwner) ==
    \E o \in TxIds : o # currentOwner /\ locks[o].present /\ locks[o].exclusive > 0

\* A variant of hasSharedLocksByOthers that counts the owner's own Shared lock.
hasSharedLocksByAnyone(locks, currentOwner) ==
    \E o \in TxIds : locks[o].present /\ locks[o].shared > 0

hasSharedLocksByOthers(locks, currentOwner) ==
    \E o \in TxIds : o # currentOwner /\ locks[o].present /\ locks[o].shared > 0

\* AcquireLock: the lock table after the call and whether it returned an error.
\* The owner's entry is created before the switch, whatever the outcome.
EngineAcquire(locks, ownerID, lockType) ==
    LET l0 == [locks EXCEPT ![ownerID].present = TRUE] IN
    IF lockType = SharedLock THEN
        [locks |-> [l0 EXCEPT ![ownerID].shared = @ + 1], err |-> FALSE]
    ELSE IF lockType = ExclusiveLock THEN
        IF isLockedByOthers(l0, ownerID) \/ hasSharedLocksByOthers(l0, ownerID)
        THEN [locks |-> l0, err |-> TRUE]
        ELSE [locks |-> [l0 EXCEPT ![ownerID].exclusive = 1], err |-> FALSE]
    ELSE [locks |-> l0, err |-> TRUE]

EngineRelease(locks, ownerID, lockType) ==
    IF ~locks[ownerID].present THEN [locks |-> locks, err |-> TRUE]
    ELSE IF lockType \notin {SharedLock, ExclusiveLock}
    THEN [locks |-> locks, err |-> TRUE]
    ELSE
        LET l1 == IF lockType = SharedLock
                  THEN [locks EXCEPT ![ownerID].shared = IF @ > 0 THEN @ - 1 ELSE @]
                  ELSE [locks EXCEPT ![ownerID].exclusive = 0]
        IN  [locks |-> IF l1[ownerID].shared = 0 /\ l1[ownerID].exclusive = 0
                       THEN [l1 EXCEPT ![ownerID] = NoLocks] ELSE l1,
             err |-> FALSE]

EngineReleaseAll(locks, ownerID) == [locks EXCEPT ![ownerID] = NoLocks]

\* The lock level an owner holds: the highest lock type it has a count for.
Level(o) ==
    IF ~fileLocks[o].present THEN NoLock
    ELSE IF fileLocks[o].exclusive > 0 THEN ExclusiveLock
    ELSE IF fileLocks[o].shared > 0 THEN SharedLock
    ELSE NoLock

\* Every call and every step of a call counts towards the bound on a run.
Tick ==
    /\ steps < MaxSteps
    /\ steps' = steps + 1
    /\ UNCHANGED <<sandbox, accessed>>

\* The same for a direct call of Put or Get of the cache with a page id, which
\* becomes the most recently accessed one; the order keeps the ids only that
\* the resident lists of the cache hold after the call.
TickAccess(id, c) ==
    /\ steps < MaxSteps
    /\ steps' = steps + 1
    /\ accessed' = SelectSeq(<<id>> \o SelectSeq(accessed, LAMBDA k : k # id),
                             LAMBDA k : k \in Keys(c.t1_lru) \cup Keys(c.t2_lru))
    /\ UNCHANGED sandbox

\* ------------------------------------------------------------------- process
\* The process ends (a kill, or a Go panic nobody recovers): what lived in
\* memory is gone, the file keeps every byte that WriteAt wrote.
ProcessDown ==
    /\ up' = FALSE
    /\ cache' = NewARCCache
    /\ dirtyPages' = {}
    /\ dbSize' = 0
    /\ rd' = NoRd
    /\ fl' = NoFl
    /\ activeTransactions' = {}
    /\ txState' = [t \in TxIds |-> "None"]
    /\ tmpc' = [t \in TxIds |-> "idle"]
    /\ savepointStacks' = [t \in TxIds |-> <<>>]
    /\ fileLocks' = [o \in TxIds |-> NoLocks]
    /\ txWrites' = [t \in TxIds |-> NoWrites]
    /\ txBegin' = [t \in TxIds |-> 0]
    /\ lastBegun' = ""
    /\ latest' = NoWrites
    /\ UNCHANGED <<file, fileSize, disk, commitLog>>

Panic(op, tx, id) ==
    /\ ProcessDown
    /\ ret' = Ret(op, tx, id, TRUE, Nil)

Kill ==
    /\ Tick
    /\ up
    /\ ProcessDown
    /\ ret' = Ret("kill", "", 0, FALSE, Nil)

\* TransactionManager.Recover, which touches nothing, then Open's NewPager.
RecoverAndOpen ==
    /\ Tick
    /\ ~up
    /\ up' = TRUE
    /\ dbSize' = fileSize
    /\ ret' = Ret("open", "", 0, FALSE, Nil)
    /\ UNCHANGED <<cache, dirtyPages, file, fileSize, disk, rd, fl>>
    /\ UNCHANGED <<tmVars, histVars>>

\* -------------------------------------------------------- TransactionManager
\* A variant of BeginTransaction without the test for an id that is active.
BeginTransactionUnchecked(txID) ==
    /\ Tick
    /\ up
    /\ tmpc[txID] = "idle"
    /\ LET a == EngineAcquire(fileLocks, txID, SharedLock) IN
       /\ fileLocks' = a.locks
       /\ activeTransactions' = activeTransactions \cup {txID}
       /\ txState' = [txState EXCEPT ![txID] = "Active"]
       /\ txWrites' = [txWrites EXCEPT ![txID] = NoWrites]
       /\ txBegin' = [txBegin EXCEPT ![txID] = Len(commitLog)]
       /\ lastBegun' = txID
       /\ ret' = Ret("begin", txID, 0, FALSE, Nil)
    /\ UNCHANGED <<tmpc, savepointStacks, commitLog, latest>>
    /\ UNCHANGED <<up, pagerVars>>

BeginTransaction(txID) ==
    /\ Tick
    /\ up
    /\ tmpc[txID] = "idle"
    /\ IF txID \in activeTransactions
       THEN /\ ret' = Ret("begin", txID, 0, TRUE, Nil)
            /\ UNCHANGED <<tmVars, histVars>>
       ELSE LET a == EngineAcquire(fileLocks, txID, SharedLock) IN
            /\ fileLocks' = a.locks
            /\ IF a.err
               THEN /\ ret' = Ret("begin", txID, 0, TRUE, Nil)
                    /\ UNCHANGED <<activeTransactions, txState, histVars>>
               ELSE /\ activeTransactions' = activeTransactions \cup {txID}
                    /\ txState' = [txState EXCEPT ![txID] = "Active"]
                    /\ txWrites' = [txWrites EXCEPT ![txID] = NoWrites]
                    /\ txBegin' = [txBegin EXCEPT ![txID] = Len(commitLog)]
                    /\ lastBegun' = txID
                    /\ ret' = Ret("begin", txID, 0, FALSE, Nil)
                    /\ UNCHANGED <<commitLog, latest>>
            /\ UNCHANGED <<tmpc, savepointStacks>>
    /\ UNCHANGED <<up, pagerVars>>

\* CommitTransaction up to and including its AcquireLock(txID, ExclusiveLock).
CommitAcquire(txID) ==
    /\ Tick
    /\ up
    /\ tmpc[txID] = "idle"
    /\ IF txID \notin activeTransactions
       THEN /\ ret' = Ret("commit", txID, 0, TRUE, Nil)
            /\ UNCHANGED tmVars
       ELSE LET a == EngineAcquire(fileLocks, txID, ExclusiveLock) IN
            /\ fileLocks' = a.locks
            /\ IF a.err
               THEN /\ ret' = Ret("commit", txID, 0, TRUE, Nil)
                    /\ UNCHANGED tmpc
               ELSE /\ tmpc' = [tmpc EXCEPT ![txID] = "commit"]
                    /\ ret' = NoRet
            /\ UNCHANGED <<activeTransactions, txState, savepointStacks>>
    /\ UNCHANGED <<up, pagerVars, histVars>>

\* A variant of the end of CommitTransaction that forgets ReleaseAllLocks.
CommitFinishKeepingLocks(txID) ==
    /\ Tick
    /\ up
    /\ tmpc[txID] = "commit"
    /\ txState' = [txState EXCEPT ![txID] = "Committed"]
    /\ activeTransactions' = activeTransactions \ {txID}
    /\ tmpc' = [tmpc EXCEPT ![txID] = "idle"]
    /\ UNCHANGED savepointStacks
    /\ commitLog' = Append(commitLog, txWrites[txID])
    /\ txWrites' = [txWrites EXCEPT ![txID] = NoWrites]
    /\ txBegin' = [txBegin EXCEPT ![txID] = 0]
    /\ lastBegun' = Remaining(activeTransactions \ {txID})
    /\ ret' = Ret("commit", txID, 0, FALSE, Nil)
    /\ UNCHANGED latest
    /\ UNCHANGED <<up, pagerVars, fileLocks>>

\* The rest of CommitTransaction: ReleaseAllLocks, State = Committed, delete.
\* Nothing is written to the pager, the journal or the file.
CommitFinish(txID) ==
    /\ Tick
    /\ up
    /\ tmpc[txID] = "commit"
    /\ fileLocks' = EngineReleaseAll(fileLocks, txID)
    /\ txState' = [txState EXCEPT ![txID] = "Committed"]
    /\ activeTransactions' = activeTransactions \ {txID}
    /\ tmpc' = [tmpc EXCEPT ![txID] = "idle"]
    /\ UNCHANGED savepointStacks
    /\ commitLog' = Append(commitLog, txWrites[txID])
    /\ txWrites' = [txWrites EXCEPT ![txID] = NoWrites]
    /\ txBegin' = [txBegin EXCEPT ![txID] = 0]
    /\ lastBegun' = Remaining(activeTransactions \ {txID})
    /\ ret' = Ret("commit", txID, 0, FALSE, Nil)
    /\ UNCHANGED latest
    /\ UNCHANGED <<up, pagerVars>>

\* RollbackTransaction: the pager's cache and dirty set are left as they are.
RollbackTransaction(txID) ==
    /\ Tick
    /\ up
    /\ tmpc[txID] = "idle"
    /\ IF txID \notin activeTransactions
       THEN /\ ret' = Ret("rollback", txID, 0, TRUE, Nil)
            /\ UNCHANGED <<tmVars, histVars>>
       ELSE /\ fileLocks' = EngineReleaseAll(fileLocks, txID)
            /\ txState' = [txState EXCEPT ![txID] = "RolledBack"]
            /\ activeTransactions' = activeTransactions \ {txID}
            /\ txWrites' = [txWrites EXCEPT ![txID] = NoWrites]
            /\ txBegin' = [txBegin EXCEPT ![txID] = 0]
            /\ lastBegun' = Remaining(activeTransactions \ {txID})
            /\ ret' = Ret("rollback", txID, 0, FALSE, Nil)
            /\ UNCHANGED <<tmpc, savepointStacks, commitLog, latest>>
    /\ UNCHANGED <<up, pagerVars>>

\* ----------------------------------------------------------------------- Pager
\* A variant of the snapshot of the dirty ids that leaves out the sort and
\* takes them as the map happens to yield them, here from the highest down.
RECURSIVE UnsortedIds(_)
UnsortedIds(S) ==
    IF S = {} THEN <<>>
    ELSE LET m == CHOOSE x \in S : \A y \in S : x >= y
         IN  <<m>> \o UnsortedIds(S \ {m})

\* The ids of a set in ascending order (sort.Slice in FlushDirtyPages).
RECURSIVE SortedIds(_)
SortedIds(S) ==
    IF S = {} THEN <<>>
    ELSE LET m == CHOOSE x \in S : \A y \in S : x <= y
         IN  <<m>> \o SortedIds(S \ {m})

\* WritePage(id, data) called by transaction tx; data has pageSize bytes.
WritePage(tx, id, data) ==
    /\ Tick
    /\ up
    /\ tx \in activeTransactions
    /\ tmpc[tx] = "idle"
    /\ IF id = 0
       THEN /\ ret' = Ret("write", tx, id, TRUE, Nil)
            /\ UNCHANGED <<up, pagerVars, tmVars, histVars>>
       ELSE LET c == Put(cache, id, data) IN
            IF c.panic THEN Panic("write", tx, id)
            ELSE /\ cache' = c
                 /\ dirtyPages' = dirtyPages \cup {id}
                 /\ dbSize' = IF id > dbSize THEN id ELSE dbSize
                 /\ txWrites' = [txWrites EXCEPT ![tx][id] = data]
                 /\ latest' = [latest EXCEPT ![id] = data]
                 /\ ret' = Ret("write", tx, id, FALSE, Nil)
                 /\ UNCHANGED <<up, file, fileSize, disk, rd, fl>>
                 /\ UNCHANGED <<tmVars, txBegin, lastBegun, commitLog>>

\* uint16(n): the conversion keeps the low 16 bits.
Uint16(n) == n % 65536

\* The buffer lengths WritePage is tried with.
Lens == {0, pageSize - 1, pageSize, pageSize + 1, 65536, 65536 + pageSize}

\* WritePage(id, data) with a buffer of n bytes that starts with the bytes
\* data stands for: the id test, then the length test on uint16(len(data)),
\* then the copy of the first pageSize bytes and the rest of WritePage.
WritePageLen(tx, id, data, n) ==
    IF id # 0 /\ Uint16(n) # pageSize
    THEN /\ Tick
         /\ up
         /\ tx \in activeTransactions
         /\ tmpc[tx] = "idle"
         /\ ret' = Ret("write", tx, id, TRUE, Nil)
         /\ UNCHANGED <<up, pagerVars, tmVars, histVars>>
    ELSE WritePage(tx, id, data)

\* GetPage(id) called by transaction tx, up to the end of its first critical
\* section: a hit returns, a miss goes on to read the file without the mutex.
GetPageLookup(tx, id) ==
    /\ Tick
    /\ up
    /\ tx \in activeTransactions
    /\ tmpc[tx] = "idle"
    /\ rd.pc = "idle"
    /\ IF id = 0
       THEN /\ ret' = Ret("get", tx, id, TRUE, Nil)
            /\ UNCHANGED <<up, pagerVars, tmVars, histVars>>
       ELSE LET g == Get(cache, id) IN
            IF g.c.panic THEN Panic("get", tx, id)
            ELSE /\ cache' = g.c
                 /\ IF g.ok
                    THEN /\ ret' = Ret("get", tx, id, FALSE, g.page)
                         /\ UNCHANGED rd
                    ELSE /\ rd' = [pc |-> "read", tx |-> tx, id |-> id, buf |-> Nil]
                         /\ ret' = NoRet
                 /\ UNCHANGED <<up, dirtyPages, dbSize, file, fileSize, disk, fl>>
                 /\ UNCHANGED <<tmVars, histVars>>

\* file.ReadAt of the missed page; a read past the end of the file is zero-filled.
GetPageRead(ok) ==
    /\ Tick
    /\ up
    /\ rd.pc = "read"
    /\ IF ok
       THEN /\ rd' = [rd EXCEPT !.pc = "put", !.buf = file[rd.id]]
            /\ ret' = NoRet
       ELSE /\ rd' = NoRd
            /\ ret' = Ret("get", rd.tx, rd.id, TRUE, Nil)
    /\ UNCHANGED <<up, cache, dirtyPages, dbSize, file, fileSize, disk, fl>>
    /\ UNCHANGED <<tmVars, histVars>>

\* The second critical section of GetPage: cache.Put(id, buf), return buf.
GetPagePut ==
    /\ Tick
    /\ up
    /\ rd.pc = "put"
    /\ LET c == Put(cache, rd.id, rd.buf) IN
       IF c.panic THEN Panic("get", rd.tx, rd.id)
       ELSE /\ cache' = c
            /\ rd' = NoRd
            /\ ret' = Ret("get", rd.tx, rd.id, FALSE, rd.buf)
            /\ UNCHANGED <<up, dirtyPages, dbSize, file, fileSize, disk, fl>>
            /\ UNCHANGED <<tmVars, histVars>>

\* FlushDirtyPages: the list of dirty ids is taken under the mutex and sorted.
FlushStart ==
    /\ Tick
    /\ up
    /\ fl.pc = "idle"
    /\ fl' = [pc |-> IF dirtyPages = {} THEN "sync" ELSE "write",
              ids |-> SortedIds(dirtyPages), written |-> <<>>]
    /\ ret' = NoRet
    /\ UNCHANGED <<up, cache, dirtyPages, dbSize, file, fileSize, disk, rd>>
    /\ UNCHANGED <<tmVars, histVars>>

\* One turn of the loop: cache.Get(id) under the mutex, then file.WriteAt.
FlushWrite(ok) ==
    /\ Tick
    /\ up
    /\ fl.pc = "write"
    /\ LET id == Head(fl.ids)
           g == Get(cache, id)
       IN  IF g.c.panic THEN Panic("flush", "", id)
           ELSE /\ cache' = g.c
                /\ IF g.ok /\ ok
                   THEN /\ file' = [file EXCEPT ![id] = g.page]
                        /\ fileSize' = IF id > fileSize THEN id ELSE fileSize
                        /\ fl' = [fl EXCEPT !.ids = Tail(@),
                                            !.written = Append(@, id),
                                            !.pc = IF Tail(fl.ids) = <<>>
                                                   THEN "sync" ELSE "write"]
                        /\ ret' = NoRet
                   ELSE /\ fl' = NoFl
                        /\ ret' = Ret("flush", "", id, TRUE, Nil)
                        /\ UNCHANGED <<file, fileSize>>
                /\ UNCHANGED <<up, dirtyPages, dbSize, disk, rd>>
                /\ UNCHANGED <<tmVars, histVars>>

\* A variant of the Sync step that empties the dirty map when Sync fails.
FlushSyncDroppingDirty(ok) ==
    /\ Tick
    /\ up
    /\ fl.pc = "sync"
    /\ IF ok
       THEN /\ disk' = file
            /\ fl' = [fl EXCEPT !.pc = "clear"]
            /\ ret' = NoRet
            /\ UNCHANGED dirtyPages
       ELSE /\ fl' = NoFl
            /\ ret' = Ret("flush", "", 0, TRUE, Nil)
            /\ dirtyPages' = {}
            /\ UNCHANGED disk
    /\ UNCHANGED <<up, cache, dbSize, file, fileSize, rd>>
    /\ UNCHANGED <<tmVars, histVars>>

\* file.Sync()
FlushSync(ok) ==
    /\ Tick
    /\ up
    /\ fl.pc = "sync"
    /\ IF ok
       THEN /\ disk' = file
            /\ fl' = [fl EXCEPT !.pc = "clear"]
            /\ ret' = NoRet
       ELSE /\ fl' = NoFl
            /\ ret' = Ret("flush", "", 0, TRUE, Nil)
            /\ UNCHANGED disk
    /\ UNCHANGED <<up, cache, dirtyPages, dbSize, file, fileSize, rd>>
    /\ UNCHANGED <<tmVars, histVars>>

\* The dirty map is replaced by an empty one.
FlushClear ==
    /\ Tick
    /\ up
    /\ fl.pc = "clear"
    /\ dirtyPages' = {}
    /\ fl' = NoFl
    /\ ret' = Ret("flush", "", 0, FALSE, Nil)
    /\ UNCHANGED <<up, cache, dbSize, file, fileSize, disk, rd>>
    /\ UNCHANGED <<tmVars, histVars>>

\* The loop of FlushDirtyPages run without interruption: the cache, the file
\* and its size after it, and whether every page was found and written.
RECURSIVE FlushAll(_, _, _, _)
FlushAll(c, f, n, ids) ==
    IF ids = <<>> THEN [c |-> c, file |-> f, size |-> n, ok |-> TRUE]
    ELSE LET g == Get(c, Head(ids)) IN
         IF g.c.panic \/ ~g.ok
         THEN [c |-> g.c, file |-> f, size |-> n, ok |-> FALSE]
         ELSE FlushAll(g.c, [f EXCEPT ![Head(ids)] = g.page],
                       max(n, Head(ids)), Tail(ids))

\* Pager.Close by the last user of the database: FlushDirtyPages run to its
\* end with no other call in between, then file.Close().
Close ==
    /\ Tick
    /\ up
    /\ fl.pc = "idle"
    /\ rd.pc = "idle"
    /\ LET r == FlushAll(cache, file, fileSize, SortedIds(dirtyPages)) IN
       IF r.c.panic
       THEN /\ up' = FALSE
            /\ cache' = NewARCCache
            /\ dirtyPages' = {}
            /\ dbSize' = 0
            /\ rd' = NoRd
            /\ fl' = NoFl
            /\ activeTransactions' = {}
            /\ txState' = [t \in TxIds |-> "None"]
            /\ tmpc' = [t \in TxIds |-> "idle"]
            /\ savepointStacks' = [t \in TxIds |-> <<>>]
            /\ fileLocks' = [o \in TxIds |-> NoLocks]
            /\ txWrites' = [t \in TxIds |-> NoWrites]
            /\ txBegin' = [t \in TxIds |-> 0]
            /\ lastBegun' = ""
            /\ latest' = NoWrites
            /\ file' = r.file
            /\ fileSize' = r.size
            /\ ret' = Ret("close", "", 0, TRUE, Nil)
            /\ UNCHANGED <<disk, commitLog>>
       ELSE IF ~r.ok
       THEN /\ cache' = r.c
            /\ file' = r.file
            /\ fileSize' = r.size
            /\ ret' = Ret("close", "", 0, TRUE, Nil)
            /\ UNCHANGED <<up, dirtyPages, dbSize, disk, rd, fl>>
            /\ UNCHANGED <<tmVars, histVars>>
       ELSE /\ up' = FALSE
            /\ cache' = NewARCCache
            /\ dirtyPages' = {}
            /\ dbSize' = 0
            /\ rd' = NoRd
            /\ fl' = NoFl
            /\ activeTransactions' = {}
            /\ txState' = [t \in TxIds |-> "None"]
            /\ tmpc' = [t \in TxIds |-> "idle"]
            /\ savepointStacks' = [t \in TxIds |-> <<>>]
            /\ fileLocks' = [o \in TxIds |-> NoLocks]
            /\ txWrites' = [t \in TxIds |-> NoWrites]
            /\ txBegin' = [t \in TxIds |-> 0]
            /\ lastBegun' = ""
            /\ latest' = NoWrites
            /\ file' = r.file
            /\ fileSize' = r.size
            /\ disk' = r.file
            /\ ret' = Ret("close", "", 0, FALSE, Nil)
            /\ UNCHANGED commitLog

\* ------------------------------------------- TransactionEngine, called directly
AcquireLock(ownerID, lockType) ==
    /\ Tick
    /\ up
    /\ fileLocks[ownerID].shared < MaxShared
    /\ LET a == EngineAcquire(fileLocks, ownerID, lockType) IN
       /\ fileLocks' = a.locks
       /\ ret' = Ret("acquire", ownerID, lockType, a.err, Nil)
    /\ UNCHANGED <<up, pagerVars, activeTransactions, txState, tmpc, savepointStacks, histVars>>

ReleaseLock(ownerID, lockType) ==
    /\ Tick
    /\ up
    /\ LET r == EngineRelease(fileLocks, ownerID, lockType) IN
       /\ fileLocks' = r.locks
       /\ ret' = Ret("release", ownerID, lockType, r.err, Nil)
    /\ UNCHANGED <<up, pagerVars, activeTransactions, txState, tmpc, savepointStacks, histVars>>

ReleaseAllLocks(ownerID) ==
    /\ Tick
    /\ up
    /\ fileLocks' = EngineReleaseAll(fileLocks, ownerID)
    /\ ret' = Ret("releaseAll", ownerID, 0, FALSE, Nil)
    /\ UNCHANGED <<up, pagerVars, activeTransactions, txState, tmpc, savepointStacks, histVars>>

\* ------------------------------------------------------------------ savepoints
\* A stack entry is a Savepoint, which has a Name only; snap is history: the
\* pages the transaction had written when the savepoint was created.
\* A variant that finds the oldest savepoint of that name.
FirstIndex(stack, name) ==
    IF \E i \in 1..Len(stack) : stack[i].name = name
    THEN CHOOSE i \in 1..Len(stack) :
             /\ stack[i].name = name
             /\ \A j \in 1..(i - 1) : stack[j].name # name
    ELSE 0

\* The index of the topmost savepoint of that name, 0 when there is none.
LastIndex(stack, name) ==
    IF \E i \in 1..Len(stack) : stack[i].name = name
    THEN CHOOSE i \in 1..Len(stack) :
             /\ stack[i].name = name
             /\ \A j \in (i + 1)..Len(stack) : stack[j].name # name
    ELSE 0

CreateSavepoint(txID, name) ==
    /\ Tick
    /\ up
    /\ savepointStacks' = [savepointStacks EXCEPT ![txID] =
                              Append(@, [name |-> name, snap |-> txWrites[txID]])]
    /\ ret' = Ret("savepoint", txID, 0, FALSE, Nil)
    /\ UNCHANGED <<up, pagerVars, activeTransactions, txState, tmpc, fileLocks, histVars>>

ReleaseSavepoint(txID, name) ==
    /\ Tick
    /\ up
    /\ LET stack == savepointStacks[txID]
           i == LastIndex(stack, name)
       IN  IF i = 0
           THEN /\ ret' = RetName("releaseSavepoint", txID, name, TRUE)
                /\ UNCHANGED savepointStacks
           ELSE /\ savepointStacks' = [savepointStacks EXCEPT ![txID] = SubSeq(stack, 1, i - 1)]
                /\ ret' = RetName("releaseSavepoint", txID, name, FALSE)
    /\ UNCHANGED <<up, pagerVars, activeTransactions, txState, tmpc, fileLocks, histVars>>

\* RollbackToSavepoint cuts the stack and touches no page. The history of what
\* the transaction has written goes back to what it was at the savepoint.
RollbackToSavepoint(txID, name) ==
    /\ Tick
    /\ up
    /\ LET stack == savepointStacks[txID]
           i == LastIndex(stack, name)
       IN  IF i = 0
           THEN /\ ret' = RetName("rollbackTo", txID, name, TRUE)
                /\ UNCHANGED <<savepointStacks, txWrites>>
           ELSE /\ savepointStacks' = [savepointStacks EXCEPT ![txID] = SubSeq(stack, 1, i)]
                /\ txWrites' = [txWrites EXCEPT ![txID] = stack[i].snap]
                /\ ret' = RetName("rollbackTo", txID, name, FALSE)
    /\ UNCHANGED <<up, pagerVars, activeTransactions, txState, tmpc, fileLocks>>
    /\ UNCHANGED <<txBegin, lastBegun, commitLog, latest>>

\* ------------------------------------------------ ARCCache, called directly
\* A panic of Put or Get ends the use of the cache: no call follows it.
CachePut(id, page) ==
    /\ TickAccess(id, Put(cache, id, page))
    /\ up
    /\ ~cache.panic
    /\ cache' = Put(cache, id, page)
    /\ ret' = Ret("cachePut", "", id, cache'.panic, Nil)
    /\ UNCHANGED <<up, dirtyPages, dbSize, file, fileSize, disk, rd, fl>>
    /\ UNCHANGED <<tmVars, histVars>>

CacheGet(id) ==
    /\ TickAccess(id, Get(cache, id).c)
    /\ up
    /\ ~cache.panic
    /\ LET g == Get(cache, id) IN
       /\ cache' = g.c
       /\ ret' = Ret("cacheGet", "", id, g.c.panic, g.page)
    /\ UNCHANGED <<up, dirtyPages, dbSize, file, fileSize, disk, rd, fl>>
    /\ UNCHANGED <<tmVars, histVars>>

\* ------------------------------------------------------------- specifications
\* The pager and the transaction manager used together by two transactions
\* that begin, read, write, flush, commit and roll back.
Next ==
    \/ steps < MaxRWSteps /\ \E t \in TxIds \ activeTransactions : BeginTransaction(t)
    \/ steps < MaxRWSteps /\ \E t \in activeTransactions : CommitAcquire(t)
    \/ steps < MaxRWSteps /\ \E t \in TxIds : CommitFinish(t)
    \/ steps < MaxRWSteps /\ \E t \in activeTransactions : RollbackTransaction(t)
    \/ steps < MaxRWSteps /\ \E t \in TxIds, id \in PagerPages, v \in Vals : WritePage(t, id, v)
    \/ steps < MaxRWSteps /\ \E t \in TxIds, id \in PagerPages : GetPageLookup(t, id)
    \/ steps < MaxRWSteps /\ GetPageRead(TRUE)
    \/ steps < MaxRWSteps /\ GetPagePut
    \/ steps < MaxRWSteps /\ FlushStart
    \/ steps < MaxRWSteps /\ FlushWrite(TRUE)
    \/ steps < MaxRWSteps /\ FlushSync(TRUE)
    \/ steps < MaxRWSteps /\ FlushClear

Spec == Init /\ [][Next]_vars

\* Transactions that write and flush, with kills, panics, closes and reopens.
NextCrash ==
    \/ \E t \in TxIds \ activeTransactions : BeginTransaction(t)
    \/ \E t \in activeTransactions : CommitAcquire(t)
    \/ \E t \in TxIds : CommitFinish(t)
    \/ \E t \in activeTransactions : RollbackTransaction(t)
    \/ \E t \in TxIds, id \in PagerPages, v \in Vals : WritePage(t, id, v)
    \/ FlushStart
    \/ FlushWrite(TRUE)
    \/ FlushSync(TRUE)
    \/ FlushClear
    \/ Close
    \/ Kill
    \/ RecoverAndOpen

SpecCrash == Init /\ [][NextCrash]_vars

\* The ARC cache alone, driven through Put and Get.
NextARC ==
    \/ steps < MaxARCSteps /\ \E id \in Pages, v \in Vals : CachePut(id, v)
    \/ steps < MaxARCSteps /\ \E id \in Pages : CacheGet(id)

SpecARC == Init /\ [][NextARC]_vars

\* Transactions that write, read and use savepoints.
NextSP ==
    \/ steps < MaxSPSteps /\ \E t \in TxIds : BeginTransaction(t)
    \/ steps < MaxSPSteps /\ \E t \in activeTransactions : CommitAcquire(t)
    \/ steps < MaxSPSteps /\ \E t \in TxIds : CommitFinish(t)
    \/ steps < MaxSPSteps /\ \E t \in activeTransactions : RollbackTransaction(t)
    \/ steps < MaxSPSteps /\ \E t \in TxIds, id \in PagerPages, v \in Vals : WritePage(t, id, v)
    \/ steps < MaxSPSteps /\ \E t \in TxIds, id \in PagerPages : GetPageLookup(t, id)
    \/ steps < MaxSPSteps /\ GetPageRead(TRUE)
    \/ steps < MaxSPSteps /\ GetPagePut
    \/ steps < MaxSPSteps /\ \E t \in TxIds, n \in SpNames : CreateSavepoint(t, n)
    \/ steps < MaxSPSteps /\ \E t \in TxIds, n \in SpNames : ReleaseSavepoint(t, n)
    \/ steps < MaxSPSteps /\ \E t \in TxIds, n \in SpNames : RollbackToSavepoint(t, n)

SpecSP == Init /\ [][NextSP]_vars

\* The savepoint stacks alone, of transactions that have begun.
NextSavepoint ==
    \/ steps < MaxSPSteps /\ \E t \in TxIds \ activeTransactions : BeginTransaction(t)
    \/ steps < MaxSPSteps /\ \E t \in TxIds, n \in SpNames : CreateSavepoint(t, n)
    \/ steps < MaxSPSteps /\ \E t \in TxIds, n \in SpNames : ReleaseSavepoint(t, n)
    \/ steps < MaxSPSteps /\ \E t \in TxIds, n \in SpNames : RollbackToSavepoint(t, n)

SpecSavepoint == Init /\ [][NextSavepoint]_vars

\* Writes of non-zero pages by one transaction and flushes whose page writes
\* and Sync may fail.
NextFlush ==
    \/ steps < MaxFlushSteps /\ activeTransactions = {}
       /\ \E t \in TxIds : BeginTransaction(t)
    \/ steps < MaxFlushSteps
       /\ \E t \in TxIds, id \in PagerPages, v \in Vals \ {0} : WritePage(t, id, v)
    \/ steps < MaxFlushSteps /\ FlushStart
    \/ steps < MaxFlushSteps /\ \E ok \in BOOLEAN : FlushWrite(ok)
    \/ steps < MaxFlushSteps /\ \E ok \in BOOLEAN : FlushSync(ok)
    \/ steps < MaxFlushSteps /\ FlushClear

SpecFlush == Init /\ [][NextFlush]_vars

\* WritePage called with every page id from 0 and with buffers of many lengths.
NextWrite ==
    \/ steps < MaxWriteSteps /\ \E t \in TxIds \ activeTransactions : BeginTransaction(t)
    \/ steps < MaxWriteSteps
       /\ \E t \in TxIds, id \in 0..MaxPagerPage, v \in Vals, n \in Lens :
              WritePageLen(t, id, v, n)

SpecWrite == Init /\ [][NextWrite]_vars

\* The transaction manager alone.
NextTM ==
    \/ \E t \in TxIds : BeginTransaction(t)
    \/ \E t \in TxIds : CommitAcquire(t)
    \/ \E t \in TxIds : CommitFinish(t)
    \/ \E t \in TxIds : RollbackTransaction(t)

SpecTM == Init /\ [][NextTM]_vars

\* The lock table of the transaction engine, driven through its own methods.
NextLock ==
    \/ \E o \in TxIds, lt \in LockTypes : AcquireLock(o, lt)
    \/ \E o \in TxIds, lt \in LockTypes : ReleaseLock(o, lt)
    \/ \E o \in TxIds : ReleaseAllLocks(o)

SpecLock == Init /\ [][NextLock]_vars

\* --------------------------------------------------------- the file header
\* "SQLite format 3\000"
MagicString == <<83, 81, 76, 105, 116, 101, 32, 102, 111, 114, 109, 97, 116, 32, 51, 0>>

\* binary.BigEndian on a page; off is the offset of the first byte, from 0.
BigEndianUint16(page, off) == page[off + 1] * 256 + page[off + 2]
BigEndianUint32(page, off) ==
    ((page[off + 1] * 256 + page[off + 2]) * 256 + page[off + 3]) * 256 + page[off + 4]
PutUint16(v) == <<(v \div 256) % 256, v % 256>>
PutUint32(v) ==
    <<(v \div 16777216) % 256, (v \div 65536) % 256, (v \div 256) % 256, v % 256>>

Zeros(n) == [i \in 1..n |-> 0]

\* x & (x - 1) = 0 for a uint32 x: x is 0 or a power of two.
RECURSIVE IsPow2OrZero(_)
IsPow2OrZero(x) ==
    IF x < 2 THEN TRUE
    ELSE IF x % 2 = 1 THEN FALSE
    ELSE IsPow2OrZero(x \div 2)

NoHeader == [nil |-> TRUE]
HeaderResult(h, size, err) == [h |-> h, size |-> size, err |-> err]

\* The fields ReadDatabaseHeader copies out of a page.
HeaderFields(page) ==
    [MagicString |-> SubSeq(page, 1, 16),
     PageSize |-> BigEndianUint16(page, 16),
     FileFormatWriteVersion |-> page[19],
     FileFormatReadVersion |-> page[20],
     Reserved1 |-> page[21],
     MaxEmbeddedPayloadFrac |-> page[22],
     MinEmbeddedPayloadFrac |-> page[23],
     LeafEmbeddedPayloadFrac |-> page[24],
     FileChangeCounter |-> BigEndianUint32(page, 24),
     DatabaseSize |-> BigEndianUint32(page, 28),
     FirstFreelistTrunkPage |-> BigEndianUint32(page, 32),
     TotalFreelistPages |-> BigEndianUint32(page, 36),
     SchemaCookie |-> BigEndianUint32(page, 40),
     SchemaFormat |-> BigEndianUint32(page, 44),
     DefaultPageCacheSize |-> BigEndianUint32(page, 48),
     VacuumMode |-> BigEndianUint32(page, 52),
     ApplicationID |-> BigEndianUint32(page, 56),
     UserVersion |-> BigEndianUint32(page, 60),
     IncrementalVacuumPage |-> BigEndianUint32(page, 64),
     VersionValidFor |-> BigEndianUint32(page, 68),
     SQLiteVersion |-> BigEndianUint32(page, 72),
     Reserved2 |-> SubSeq(page, 77, 96)]

\* A variant of ReadDatabaseHeader that takes the stored value 1 as one byte.
ReadDatabaseHeaderLiteralOne(page) ==
    IF Len(page) < 100 THEN HeaderResult(NoHeader, 0, "page too small")
    ELSE IF SubSeq(page, 1, 16) # MagicString
    THEN HeaderResult(NoHeader, 0, "ErrInvalidFileFormat")
    ELSE
      LET actualPageSize == BigEndianUint16(page, 16) IN
      IF actualPageSize < 512 \/ actualPageSize > 65536 \/ ~IsPow2OrZero(actualPageSize)
      THEN HeaderResult(NoHeader, 0, "ErrInvalidPageSize")
      ELSE IF page[19] > 2 \/ page[20] > 2 \/ page[19] = 0 \/ page[20] = 0
      THEN HeaderResult(NoHeader, 0, "ErrUnsupportedFileFormatVersion")
      ELSE HeaderResult(HeaderFields(page), actualPageSize, "")

\* ReadDatabaseHeader: the header, the actual page size and the error ("": nil).
ReadDatabaseHeader(page) ==
    IF Len(page) < 100 THEN HeaderResult(NoHeader, 0, "page too small")
    ELSE IF SubSeq(page, 1, 16) # MagicString
    THEN HeaderResult(NoHeader, 0, "ErrInvalidFileFormat")
    ELSE
      LET PageSize == BigEndianUint16(page, 16)
          actualPageSize == IF PageSize = 1 THEN 65536 ELSE PageSize
      IN
      IF actualPageSize < 512 \/ actualPageSize > 65536 \/ ~IsPow2OrZero(actualPageSize)
      THEN HeaderResult(NoHeader, 0, "ErrInvalidPageSize")
      ELSE IF page[19] > 2 \/ page[20] > 2 \/ page[19] = 0 \/ page[20] = 0
      THEN HeaderResult(NoHeader, 0, "ErrUnsupportedFileFormatVersion")
      ELSE HeaderResult(HeaderFields(page), actualPageSize, "")

\* DefaultDatabaseHeader: the fields not set stay zero.
DefaultDatabaseHeader(size) ==
    [MagicString |-> MagicString,
     PageSize |-> Uint16(size),
     FileFormatWriteVersion |-> 1,
     FileFormatReadVersion |-> 1,
     Reserved1 |-> 0,
     MaxEmbeddedPayloadFrac |-> 64,
     MinEmbeddedPayloadFrac |-> 32,
     LeafEmbeddedPayloadFrac |-> 32,
     FileChangeCounter |-> 0,
     DatabaseSize |-> 0,
     FirstFreelistTrunkPage |-> 0,
     TotalFreelistPages |-> 0,
     SchemaCookie |-> 0,
     SchemaFormat |-> 0,
     DefaultPageCacheSize |-> 0,
     VacuumMode |-> 0,
     ApplicationID |-> 0,
     UserVersion |-> 0,
     IncrementalVacuumPage |-> 0,
     VersionValidFor |-> 0,
     SQLiteVersion |-> 0,
     Reserved2 |-> Zeros(20)]

\* DatabaseHeader.Bytes: 100 bytes, of which the last four are never set.
Bytes(h) ==
    h.MagicString
    \o PutUint16(h.PageSize)
    \o <<h.FileFormatWriteVersion, h.FileFormatReadVersion, h.Reserved1,
         h.MaxEmbeddedPayloadFrac, h.MinEmbeddedPayloadFrac, h.LeafEmbeddedPayloadFrac>>
    \o PutUint32(h.FileChangeCounter)
    \o PutUint32(h.DatabaseSize)
    \o PutUint32(h.FirstFreelistTrunkPage)
    \o PutUint32(h.TotalFreelistPages)
    \o PutUint32(h.SchemaCookie)
    \o PutUint32(h.SchemaFormat)
    \o PutUint32(h.DefaultPageCacheSize)
    \o PutUint32(h.VacuumMode)
    \o PutUint32(h.ApplicationID)
    \o PutUint32(h.UserVersion)
    \o PutUint32(h.IncrementalVacuumPage)
    \o PutUint32(h.VersionValidFor)
    \o PutUint32(h.SQLiteVersion)
    \o h.Reserved2
    \o Zeros(4)

\* buildValidHeader of the tests: a minimal valid header of 100 bytes.
buildValidHeader(size) ==
    MagicString \o PutUint16(size) \o <<1, 1, 0, 64, 32, 32>> \o Zeros(76)

\* Header pages to read: buildValidHeader with some bytes set and the length
\* cut or extended with zeros.
RawPageSizes == {0, 1, 2, 123, 256, 512, 1024, 1536, 4096, 32768, 65535}
HeaderLens == {0, 99, 100, 101}
Versions == 0..3
\* offsets (from 0) of one byte of the magic string that the page has wrong
MagicFaults == {Nil, 0, 15}
CounterVals == {0, 258}
TailVals == {0, 7}
Variant(size, wv, rv, fault, counter, tail, n) ==
    LET base == buildValidHeader(size) \o <<0>> IN
    [i \in 1..n |->
        IF fault # Nil /\ i = fault + 1 THEN 66
        ELSE IF i = 19 THEN wv
        ELSE IF i = 20 THEN rv
        ELSE IF i \in 25..28 THEN PutUint32(counter)[i - 24]
        ELSE IF i \in 93..100 THEN tail
        ELSE base[i]]

\* Valid headers to serialise: the default header with some fields set.
ValidHeaders ==
    {[DefaultDatabaseHeader(size) EXCEPT !.FileFormatWriteVersion = wv,
                                         !.FileChangeCounter = counter,
                                         !.SQLiteVersion = counter,
                                         !.Reserved2 = [i \in 1..20 |-> tail]] :
        size \in {x \in RawPageSizes : x = 1 \/ (x >= 512 /\ IsPow2OrZero(x))},
        wv \in {1, 2},
        counter \in CounterVals, tail \in TailVals}

\* No call has been made yet: a call of a function of the package starts here.
Fresh == ret = Ret("open", "", 0, FALSE, Nil)

\* A call of ReadDatabaseHeader.
CallReadDatabaseHeader(page) ==
    /\ Fresh
    /\ ret' = [op |-> "ReadDatabaseHeader", arg |-> page, out |-> ReadDatabaseHeader(page)]
    /\ UNCHANGED <<up, pagerVars, tmVars, histVars, steps, sandbox, accessed>>

\* ReadDatabaseHeader of a page of 100 bytes it accepts, then Bytes of the header.
CallReadThenBytes(page) ==
    /\ Fresh
    /\ Len(page) = 100
    /\ ReadDatabaseHeader(page).err = ""
    /\ ret' = [op |-> "ReadThenBytes", arg |-> page,
               out |-> Bytes(ReadDatabaseHeader(page).h)]
    /\ UNCHANGED <<up, pagerVars, tmVars, histVars, steps, sandbox, accessed>>

\* Bytes of a header, then ReadDatabaseHeader of the bytes.
CallBytesThenRead(h) ==
    /\ Fresh
    /\ ret' = [op |-> "BytesThenRead", arg |-> h, out |-> ReadDatabaseHeader(Bytes(h))]
    /\ UNCHANGED <<up, pagerVars, tmVars, histVars, steps, sandbox, accessed>>

HeaderPages ==
    {Variant(size, wv, rv, fault, counter, tail, n) :
        size \in RawPageSizes, wv \in Versions, rv \in Versions, fault \in MagicFaults,
        counter \in CounterVals, tail \in TailVals, n \in HeaderLens}

NextHeader ==
    \/ Fresh /\ \E page \in HeaderPages : CallReadDatabaseHeader(page)
    \/ Fresh /\ \E page \in HeaderPages : CallReadThenBytes(page)
    \/ Fresh /\ \E h \in ValidHeaders : CallBytesThenRead(h)

SpecHeader == Init /\ [][NextHeader]_vars

\* ------------------------------------------------------ data source strings
\* A string is a sequence of characters; "" is <<>>.
UpperCase == <<"A", "B", "C", "D", "E", "F", "G", "H", "I", "J", "K", "L", "M",
               "N", "O", "P", "Q", "R", "S", "T", "U", "V", "W", "X", "Y", "Z">>
LowerCase == <<"a", "b", "c", "d", "e", "f", "g", "h", "i", "j", "k", "l", "m",
               "n", "o", "p", "q", "r", "s", "t", "u", "v", "w", "x", "y", "z">>
Digits == <<"0", "1", "2", "3", "4", "5", "6", "7", "8", "9">>
IndexIn(alphabet, c) ==
    IF \E i \in 1..Len(alphabet) : alphabet[i] = c
    THEN CHOOSE i \in 1..Len(alphabet) : alphabet[i] = c
    ELSE 0

\* strings.ToLower, strings.ToUpper
ToLower(str) ==
    [i \in 1..Len(str) |->
        IF IndexIn(UpperCase, str[i]) # 0 THEN LowerCase[IndexIn(UpperCase, str[i])]
        ELSE str[i]]
ToUpper(str) ==
    [i \in 1..Len(str) |->
        IF IndexIn(LowerCase, str[i]) # 0 THEN UpperCase[IndexIn(LowerCase, str[i])]
        ELSE str[i]]

\* The number a string of decimal digits stands for; Nil when the string is
\* empty or holds another character.
RECURSIVE ParseDigits(_)
ParseDigits(str) ==
    IF Len(str) = 0 THEN Nil
    ELSE LET d == IndexIn(Digits, str[Len(str)]) IN
         IF d = 0 THEN Nil
         ELSE IF Len(str) = 1 THEN d - 1
         ELSE LET rest == ParseDigits(SubSeq(str, 1, Len(str) - 1)) IN
              IF rest = Nil THEN Nil ELSE rest * 10 + (d - 1)

Parsed(val, err) == [val |-> val, err |-> err]

\* strconv.Atoi: an optional sign, then digits.
Atoi(str) ==
    LET signed == Len(str) > 0 /\ str[1] \in {"+", "-"}
        n == ParseDigits(IF signed THEN Tail(str) ELSE str)
    IN  IF n = Nil THEN Parsed(0, TRUE)
        ELSE Parsed(IF signed /\ str[1] = "-" THEN 0 - n ELSE n, FALSE)

\* strconv.ParseUint(str, 10, bitSize): digits only, below 2^bitSize.
ParseUint(str, bitSize) ==
    LET n == ParseDigits(str) IN
    IF n = Nil THEN Parsed(0, TRUE)
    ELSE IF n >= 2 ^ bitSize THEN Parsed(2 ^ bitSize - 1, TRUE)
    ELSE Parsed(n, FALSE)

\* strconv.ParseBool
ParseBool(str) ==
    IF str \in {<<"1">>, <<"t">>, <<"T">>, <<"T", "R", "U", "E">>, <<"t", "r", "u", "e">>, <<"T", "r", "u", "e">>}
    THEN Parsed(TRUE, FALSE)
    ELSE IF str \in {<<"0">>, <<"f">>, <<"F">>, <<"F", "A", "L", "S", "E">>, <<"f", "a", "l", "s", "e">>, <<"F", "a", "l", "s", "e">>}
    THEN Parsed(FALSE, FALSE)
    ELSE Parsed(FALSE, TRUE)

\* The option names ParseDSN reads from the query.
OptionNames ==
    {"mode", "cache", "_journal_mode", "_busy_timeout", "_page_size", "_synchronous",
     "_foreign_keys"}

NoConfig == [nil |-> TRUE]
DSNResult(config, err) == [config |-> config, err |-> err]

\* ParseDSN on a data source string that url.Parse has split into its scheme,
\* its opaque part and its query; query.Get gives "" for an option not given.
ParseDSN(dsn) ==
    LET m == dsn.query["mode"]
        c == dsn.query["cache"]
        j == dsn.query["_journal_mode"]
        bt == dsn.query["_busy_timeout"]
        ps == dsn.query["_page_size"]
        sy == ToUpper(dsn.query["_synchronous"])
        fk == dsn.query["_foreign_keys"]
    IN
    IF dsn.scheme # "file" THEN DSNResult(NoConfig, "unsupported DSN scheme")
    ELSE IF m # <<>> /\ ToLower(m) \notin {<<"r", "o">>, <<"r", "w">>, <<"r", "w", "c">>, <<"m", "e", "m", "o", "r", "y">>}
    THEN DSNResult(NoConfig, "invalid mode")
    ELSE IF c # <<>> /\ ToLower(c) \notin {<<"s", "h", "a", "r", "e", "d">>, <<"p", "r", "i", "v", "a", "t", "e">>}
    THEN DSNResult(NoConfig, "invalid cache")
    ELSE IF j # <<>> /\ ToUpper(j) \notin
              {<<"D", "E", "L", "E", "T", "E">>, <<"T", "R", "U", "N", "C", "A", "T", "E">>, <<"P", "E", "R", "S", "I", "S", "T">>,
               <<"M", "E", "M", "O", "R", "Y">>, <<"W", "A", "L">>, <<"O", "F", "F">>}
    THEN DSNResult(NoConfig, "invalid _journal_mode")
    ELSE IF bt # <<>> /\ Atoi(bt).err
    THEN DSNResult(NoConfig, "invalid _busy_timeout")
    ELSE IF ps # <<>> /\ ParseUint(ps, 16).err
    THEN DSNResult(NoConfig, "invalid _page_size")
    ELSE IF ps # <<>> /\ LET val == ParseUint(ps, 16).val IN
                         val < 512 \/ val > 65536 \/ ~IsPow2OrZero(val)
    THEN DSNResult(NoConfig, "page size must be a power of 2 between 512 and 65536")
    ELSE IF sy # <<>> /\ sy \notin {<<"F", "U", "L", "L">>, <<"N", "O", "R", "M", "A", "L">>, <<"O", "F", "F">>}
    THEN DSNResult(NoConfig, "invalid _synchronous")
    ELSE IF fk # <<>> /\ ParseBool(fk).err
    THEN DSNResult(NoConfig, "invalid _foreign_keys")
    ELSE DSNResult(
           [Path |-> dsn.opaque,
            Mode |-> IF m # <<>> THEN m ELSE <<"r", "w", "c">>,
            Cache |-> IF c # <<>> THEN c ELSE <<"p", "r", "i", "v", "a", "t", "e">>,
            JournalMode |-> IF j # <<>> THEN j ELSE <<"D", "E", "L", "E", "T", "E">>,
            BusyTimeout |-> IF bt # <<>> THEN Atoi(bt).val ELSE 5000,
            PageSize |-> IF ps # <<>> THEN ParseUint(ps, 16).val ELSE 0,
            Synchronous |-> IF sy # <<>> THEN sy ELSE <<"F", "U", "L", "L">>,
            ForeignKeys |-> IF fk # <<>> THEN ParseBool(fk).val ELSE FALSE],
           "")

\* Data source strings to parse. Every option is absent ("") or has one of a
\* few values; "foo" is a name ParseDSN does not read.
ModeVals == {<<>>, <<"r", "o">>, <<"i", "n", "v", "a", "l", "i", "d">>}
CacheVals == {<<>>, <<"s", "h", "a", "r", "e", "d">>, <<"n", "o", "n", "e">>}
JournalVals == {<<>>, <<"W", "A", "L">>, <<"F", "A", "S", "T">>}
BusyVals == {<<>>, <<"3", "0", "0", "0">>, <<"0">>, <<"-", "5">>, <<"a", "b", "c">>}
PageSizeVals == {<<>>, <<"4", "0", "9", "6">>, <<"5", "1", "2">>, <<"1", "2", "3">>, <<"6", "5", "5", "3", "6">>, <<"1", "3", "1", "0", "7", "2">>}
SyncVals == {<<>>, <<"N", "O", "R", "M", "A", "L">>, <<"S", "O", "M", "E">>}
BoolVals == {<<>>, <<"t", "r", "u", "e">>, <<"0">>, <<"m", "a", "y", "b", "e">>}
OtherVals == {<<>>, <<"1">>}
DSNs ==
    {[scheme |-> sch, opaque |-> "test.db",
      query |-> [k \in OptionNames \cup {"foo"} |->
                   CASE k = "mode" -> m
                     [] k = "cache" -> c
                     [] k = "_journal_mode" -> j
                     [] k = "_busy_timeout" -> bt
                     [] k = "_page_size" -> ps
                     [] k = "_synchronous" -> sy
                     [] k = "_foreign_keys" -> fk
                     [] k = "foo" -> foo]] :
        sch \in {"file", "http"}, m \in ModeVals, c \in CacheVals, j \in JournalVals,
        bt \in BusyVals, ps \in PageSizeVals, sy \in SyncVals, fk \in BoolVals,
        foo \in OtherVals}

\* A call of ParseDSN.
CallParseDSN(dsn) ==
    /\ Fresh
    /\ ret' = [op |-> "ParseDSN", arg |-> dsn, out |-> ParseDSN(dsn)]
    /\ UNCHANGED <<up, pagerVars, tmVars, histVars, steps, sandbox, accessed>>

NextDSN == Fresh /\ \E dsn \in DSNs : CallParseDSN(dsn)

SpecDSN == Init /\ [][NextDSN]_vars

\* ---------------------------------------------------------------------- Open
\* NewPager's test of its uint16 page size: TRUE when it returns an error.
NewPagerRejects(size) == size < 512 \/ size > 65536 \/ ~IsPow2OrZero(size)

OpenResult(err, size, bytes) ==
    [err |-> err,
     \* Database.pageSize and Pager.pageSize
     pageSize |-> size,
     \* the offset GetPage and FlushDirtyPages use for page 2
     offset |-> (2 - 1) * size,
     \* the first 100 bytes of the file, the rest of page 1 being zero
     file |-> bytes]

\* Open on a file that holds bytes (<<>>: a new file). GetPage(1) of the
\* temporary pager gives the first bytes of the file, filled with zeros.
Open(dsn, bytes) ==
    LET parsed == ParseDSN(dsn) IN
    IF parsed.err # "" THEN OpenResult("failed to parse DSN", 0, bytes)
    ELSE IF Len(bytes) = 0
    THEN LET size == IF parsed.config.PageSize # 0 THEN parsed.config.PageSize ELSE 4096
             header == DefaultDatabaseHeader(size)
         IN  IF NewPagerRejects(Uint16(size))
             THEN OpenResult("failed to create temporary pager", 0, bytes)
             ELSE OpenResult("", Uint16(size), Bytes(header))
    ELSE LET headerPage == IF Len(bytes) < 100
                           THEN bytes \o Zeros(100 - Len(bytes)) ELSE bytes
             read == ReadDatabaseHeader(headerPage)
         IN  IF read.err # "" THEN OpenResult("failed to parse database header", 0, bytes)
             ELSE IF NewPagerRejects(Uint16(read.size))
             THEN OpenResult("failed to create pager", 0, bytes)
             ELSE OpenResult("", Uint16(read.size), bytes)

\* Data source strings to open: a page size, a mode and a journal mode.
OpenPageSizes ==
    {<<>>, <<"5", "1", "2">>, <<"1", "0", "2", "4">>, <<"2", "0", "4", "8">>, <<"4", "0", "9", "6">>,
     <<"8", "1", "9", "2">>, <<"1", "6", "3", "8", "4">>, <<"3", "2", "7", "6", "8">>, <<"6", "5", "5", "3", "6">>, <<"1", "2", "3">>}
OpenDSNs ==
    {[scheme |-> "file", opaque |-> "test.db",
      query |-> [k \in OptionNames \cup {"foo"} |->
                   CASE k = "mode" -> m
                     [] k = "_journal_mode" -> j
                     [] k = "_page_size" -> ps
                     [] OTHER -> <<>>]] :
        m \in ModeVals, j \in JournalVals, ps \in OpenPageSizes}

\* Open creates the database on a new file, Close, and Open again.
CallOpenCreateReopen(dsn) ==
    /\ Fresh
    /\ LET created == Open(dsn, <<>>)
           reopened == IF created.err = "" THEN Open(dsn, created.file) ELSE created
       IN  ret' = [op |-> "OpenCreateReopen", arg |-> dsn,
                   out |-> [created |-> created, reopened |-> reopened]]
    /\ UNCHANGED <<up, pagerVars, tmVars, histVars, steps, sandbox, accessed>>

\* Open of a file that begins with the given header.
CallOpenExisting(page) ==
    /\ Fresh
    /\ Len(page) = 100
    /\ ret' = [op |-> "OpenExisting", arg |-> page,
               out |-> Open([scheme |-> "file", opaque |-> "test.db",
                             query |-> [k \in OptionNames \cup {"foo"} |-> <<>>]], page)]
    /\ UNCHANGED <<up, pagerVars, tmVars, histVars, steps, sandbox, accessed>>

\* A call of DefaultDatabaseHeader.
CallDefaultDatabaseHeader(size) ==
    /\ Fresh
    /\ ret' = [op |-> "DefaultDatabaseHeader", arg |-> size,
               out |-> DefaultDatabaseHeader(size)]
    /\ UNCHANGED <<up, pagerVars, tmVars, histVars, steps, sandbox, accessed>>

\* The page sizes of the file format.
PageSizes == {512, 1024, 2048, 4096, 8192, 16384, 32768, 65536}

NextOpen ==
    \/ Fresh /\ \E dsn \in OpenDSNs : CallOpenCreateReopen(dsn)
    \/ Fresh /\ \E page \in HeaderPages : CallOpenExisting(page)
    \/ Fresh /\ \E size \in PageSizes : CallDefaultDatabaseHeader(size)

SpecOpen == Init /\ [][NextOpen]_vars

\* -------------------------------------------------------------- SandboxedVFS
\* A path is a string: a sequence of characters, with "/" between the names.
Separator == "/"

RECURSIVE SplitRec(_, _)
SplitRec(rest, cur) ==
    IF rest = <<>> THEN <<cur>>
    ELSE IF Head(rest) = Separator THEN <<cur>> \o SplitRec(Tail(rest), <<>>)
    ELSE SplitRec(Tail(rest), Append(cur, Head(rest)))

\* The names of a rooted path after filepath.Clean: empty names and "." go,
\* ".." takes the name before it away, and nothing at the root.
RECURSIVE CleanRec(_, _)
CleanRec(names, kept) ==
    IF names = <<>> THEN kept
    ELSE LET name == Head(names) IN
         IF name = <<>> \/ name = <<".">> THEN CleanRec(Tail(names), kept)
         ELSE IF name = <<".", ".">>
         THEN CleanRec(Tail(names),
                       IF kept = <<>> THEN kept ELSE SubSeq(kept, 1, Len(kept) - 1))
         ELSE CleanRec(Tail(names), Append(kept, name))

RECURSIVE Join(_)
Join(names) ==
    IF names = <<>> THEN <<>>
    ELSE <<Separator>> \o Head(names) \o Join(Tail(names))

\* filepath.Clean of a rooted path
Clean(path) ==
    LET names == CleanRec(SplitRec(path, <<>>), <<>>) IN
    IF names = <<>> THEN <<Separator>> ELSE Join(names)

\* filepath.Abs of a rooted path
Abs(path) == Clean(path)

\* strings.HasPrefix
HasPrefix(str, prefix) ==
    Len(prefix) <= Len(str) /\ SubSeq(str, 1, Len(prefix)) = prefix

\* The file system: the files and directories that exist, and one symbolic
\* link, /a/l, that leads out of /a to /b.
Files ==
    {<<"/">>, <<"/", "a">>, <<"/", "a", "/", "x">>, <<"/", "b">>, <<"/", "b", "/", "x">>, <<"/", "a", "b">>}
LinkPath == <<"/", "a", "/", "l">>
LinkTarget == <<"/", "b">>

\* A clean path with the symbolic link on its way replaced by its target.
FollowLink(path) ==
    IF path = LinkPath \/ HasPrefix(path, LinkPath \o <<Separator>>)
    THEN LinkTarget \o SubSeq(path, Len(LinkPath) + 1, Len(path))
    ELSE path

\* filepath.EvalSymlinks: an error (os.IsNotExist) for a path that does not exist.
EvalSymlinks(path) ==
    IF FollowLink(path) \in Files THEN [path |-> FollowLink(path), err |-> ""]
    ELSE [path |-> <<>>, err |-> "IsNotExist"]

\* canonicalizeAndValidatePath, on Linux: the final path and the error.
canonicalizeAndValidatePath(allowedPaths, path) ==
    LET cleanPath == Clean(Abs(path))
        resolved == EvalSymlinks(cleanPath)
        resolvedPath == IF resolved.err # "" THEN cleanPath ELSE resolved.path
        finalPath == Abs(resolvedPath)
    IN  IF ~\E allowed \in allowedPaths : HasPrefix(cleanPath, allowed)
        THEN [path |-> <<>>, err |-> "outside the allowed directories"]
        ELSE IF ~\E allowed \in allowedPaths : HasPrefix(finalPath, allowed)
        THEN [path |-> <<>>, err |-> "resolved path outside the allowed directories"]
        ELSE [path |-> finalPath, err |-> ""]

\* isPathAllowed: the answer and the error
isPathAllowed(allowedPaths, path) ==
    LET c == canonicalizeAndValidatePath(allowedPaths, path)
        absPath == c.path
    IN  IF c.err # "" THEN [allowed |-> FALSE, err |-> c.err]
        ELSE IF absPath \in allowedPaths THEN [allowed |-> TRUE, err |-> ""]
        ELSE [allowed |->
                \E allowedPath \in allowedPaths :
                    /\ HasPrefix(absPath, allowedPath)
                    /\ \/ Len(absPath) = Len(allowedPath)
                       \/ absPath[Len(allowedPath) + 1] = Separator,
              err |-> ""]

\* The loop of NewSandboxedVFS: a path that fails validation is skipped.
RECURSIVE AddAllowed(_, _)
AddAllowed(allowedPaths, allowed) ==
    IF allowed = <<>> THEN allowedPaths
    ELSE LET c == canonicalizeAndValidatePath(allowedPaths, Head(allowed)) IN
         AddAllowed(IF c.err # "" THEN allowedPaths ELSE allowedPaths \cup {c.path},
                    Tail(allowed))

NewSandboxedVFS(allowed) ==
    /\ Fresh
    /\ ~sandbox.built
    /\ sandbox' = [built |-> TRUE, allowedPaths |-> AddAllowed({}, allowed),
                   given |-> allowed]
    /\ ret' = [op |-> "NewSandboxedVFS", arg |-> allowed, out |-> Nil]
    /\ UNCHANGED <<up, pagerVars, tmVars, histVars, steps, accessed>>

\* Open, Delete, Exists, Lock and Unlock of the SandboxedVFS: passed tells
\* whether the call reached the base VFS.
SandboxOps == {"Open", "Delete", "Exists", "Lock", "Unlock"}
SandboxCall(op, path) ==
    /\ sandbox.built
    /\ LET a == isPathAllowed(sandbox.allowedPaths, path) IN
       ret' = [op |-> op, arg |-> path,
               out |-> [passed |-> a.err = "" /\ a.allowed,
                        err |-> IF a.err # "" THEN "path validation failed"
                                ELSE IF a.allowed THEN ""
                                ELSE IF op = "Exists" THEN ""
                                ELSE "access denied"]]
    /\ UNCHANGED <<up, pagerVars, tmVars, histVars, steps, sandbox, accessed>>

\* The paths given as allowed, and the paths asked for.
AllowedCandidates == {<<"/", "a">>, <<"/", "b">>, <<"/", "a", "/", "x">>}
AllowedLists ==
    {<<>>} \cup {<<p>> : p \in AllowedCandidates}
           \cup {<<p, q>> : p \in AllowedCandidates, q \in AllowedCandidates}
AskedPaths ==
    {<<"/">>, <<"/", "a">>, <<"/", "a", "/", "x">>, <<"/", "a", "/", "n">>, <<"/", "a", "/", ".", ".", "/", "b", "/", "x">>,
     <<"/", "a", "b">>, <<"/", "b", "/", "x">>, <<"/", "a", "/", "l", "/", "x">>, <<"/", "a", "/", "l", "/", "n">>}

NextSandbox ==
    \/ \E allowed \in AllowedLists : NewSandboxedVFS(allowed)
    \/ \E op \in SandboxOps, path \in AskedPaths : SandboxCall(op, path)

SpecSandbox == Init /\ [][NextSandbox]_vars

\* --------------------------------------------------------------------- history
\* A database image with the pages a transaction wrote laid over it.
Overlay(f, w) == [i \in Pages |-> IF w[i] # Nil THEN w[i] ELSE f[i]]

\* The database after the first k committed transactions, from the empty file.
RECURSIVE CommittedAt(_)
CommittedAt(k) ==
    IF k = 0 THEN [i \in Pages |-> 0]
    ELSE Overlay(CommittedAt(k - 1), commitLog[k])

\* The bytes the cache holds for a page id (Nil: none), in the order Get looks.
CachedBytes(c, id) ==
    IF c.t1_map[id] # Nil THEN c.t1_map[id]
    ELSE IF c.t2_map[id] # Nil THEN c.t2_map[id]
    ELSE IF c.b1_map[id] # Nil THEN c.b1_map[id]
    ELSE c.b2_map[id]

\* h.FileChangeCounter of a page 1: the value of a page stands for its bytes
\* 24..27, read as a big-endian number, the other bytes being fixed.
FileChangeCounter(page) == IF page = Nil THEN 0 ELSE page

\* Page 1 as the pager serves it: from the cache, else from the file.
HeaderPage == IF CachedBytes(cache, 1) # Nil THEN CachedBytes(cache, 1) ELSE file[1]

\* The call of replace that Put (put = TRUE) or Get (put = FALSE) of a page id
\* makes on a cache c: the cache it is called on and its argument; none when
\* the call returns or panics before it.
NoCall == [none |-> TRUE]
ReplaceCall(c, id, put) ==
    IF c.t1_map[id] # Nil \/ c.t2_map[id] # Nil THEN NoCall
    ELSE IF c.b1_map[id] # Nil THEN [none |-> FALSE, c |-> AdaptB1(c), b2Hit |-> FALSE]
    ELSE IF c.b2_map[id] # Nil THEN [none |-> FALSE, c |-> AdaptB2(c), b2Hit |-> TRUE]
    ELSE IF ~put \/ PutMakeRoom(c).panic THEN NoCall
    ELSE IF Len(PutMakeRoom(c).t1_lru) + Len(PutMakeRoom(c).t2_lru) >= Capacity
    THEN [none |-> FALSE, c |-> PutMakeRoom(c), b2Hit |-> FALSE]
    ELSE NoCall

\* ---------------------------------------------------------------------- claims
\* C1: atomic commit. When the database is reopened after the process went
\* down with at least one transaction committed, the file shows the new bytes
\* of every page the last committed transaction changed, or of none of them.
C1_AtomicCommit ==
    [][(~up /\ up' /\ commitLog # <<>>) =>
         LET n == Len(commitLog)
             T == commitLog[n]
             old == CommittedAt(n - 1)
             P == {q \in Pages : T[q] # Nil /\ T[q] # old[q]}
         IN  \/ \A q \in P : file'[q] = T[q]
             \/ \A q \in P : file'[q] # T[q]]_vars

\* C2: a commit is durable when it returns. When CommitTransaction returns
\* success, every page the transaction wrote is in the synced file with the
\* bytes written, and none of them is left in the dirty set only.
C2_CommitDurable ==
    [][(ret'.op = "commit" /\ ~ret'.err) =>
         \A q \in Pages :
             txWrites[ret'.tx][q] # Nil =>
                 /\ disk'[q] = txWrites[ret'.tx][q]
                 /\ q \notin dirtyPages']_vars

\* C3: recovery convergence. After a kill, Recover and a reopen, the main
\* file equals the result of applying some prefix of the committed
\* transactions.
C3_RecoveryConvergence ==
    [][(~up /\ up' /\ ret.op = "kill") =>
         \E k \in 0..Len(commitLog) : file' = CommittedAt(k)]_vars

\* C4: isolation of uncommitted writes. A GetPage(p) that returns to a
\* transaction r while another transaction w has written p and has not yet
\* committed returns the bytes committed before w began.
C4_IsolationOfUncommittedWrites ==
    [][\A r \in TxIds, w \in TxIds :
         (/\ r # w
          /\ ret'.op = "get" /\ ~ret'.err /\ ret'.tx = r
          /\ r \in activeTransactions /\ w \in activeTransactions
          /\ txWrites[w][ret'.id] # Nil
          /\ txWrites[r][ret'.id] = Nil)
         => ret'.page = CommittedAt(txBegin[w])[ret'.id]]_vars

\* C5: read-your-writes. A GetPage(p) called by a transaction after its
\* WritePage(p, B) returned, and answered within the call's first critical
\* section, returns B.
C5_ReadYourWrites ==
    [][\A t \in TxIds :
         (/\ ret'.op = "get" /\ ret'.tx = t /\ ret'.id \in Pages
          /\ rd.pc = "idle"
          /\ t \in activeTransactions
          /\ txWrites[t][ret'.id] # Nil)
         => (~ret'.err /\ ret'.page = txWrites[t][ret'.id])]_vars

\* C6: for every page id whose bytes the cache holds and that is not in the
\* dirty set, the cached bytes equal the bytes of the page in the file.
C6_CacheEqualsFileUnlessDirty ==
    \A q \in Pages :
        (CachedBytes(cache, q) # Nil /\ q \notin dirtyPages)
            => CachedBytes(cache, q) = file[q]

\* C7: an AcquireLock(Shared) by an owner holding no lock is granted exactly
\* when no other owner holds Pending or Exclusive, and after every step no
\* owner holds Shared while another holds Exclusive.
C7_SharedExcludedByExclusive ==
    [][/\ \A o \in TxIds :
            (ret'.op = "acquire" /\ ret'.tx = o /\ ret'.id = SharedLock
             /\ Level(o) = NoLock)
            => (ret'.err <=> \E o2 \in TxIds \ {o} : Level(o2) >= PendingLock)
       /\ \A o \in TxIds : \A o2 \in TxIds \ {o} :
            fileLocks'[o].exclusive > 0 => fileLocks'[o2].shared = 0]_vars

\* C8: at most one owner holds a lock level of Reserved or higher; several
\* owners may hold Shared at once.
C8_AtMostOneReservedOrHigher ==
    Cardinality({o \in TxIds : Level(o) >= ReservedLock}) <= 1

\* C8 happens: an owner holds Exclusive, another owner holds Shared, and that
\* other owner's AcquireLock(Exclusive) has just been refused.
C8_Witness ==
    \E o \in TxIds : \E o2 \in TxIds \ {o} :
        /\ Level(o) = ExclusiveLock
        /\ Level(o2) = SharedLock
        /\ ret = Ret("acquire", o2, ExclusiveLock, TRUE, Nil)

\* C9: lock ladder monotonicity. While a transaction stays active, from its
\* BeginTransaction to its release at commit or rollback, the lock level it
\* holds does not decrease.
C9_LockLevelNeverDecreases ==
    [][\A t \in TxIds :
         (t \in activeTransactions /\ t \in activeTransactions')
            => Level(t)' >= Level(t)]_vars

\* C9 happens: an active transaction has climbed from Shared to Exclusive in
\* its commit, after the other transaction gave up its locks by rolling back.
C9_Witness ==
    \E t \in TxIds : \E t2 \in TxIds \ {t} :
        /\ t \in activeTransactions
        /\ tmpc[t] = "commit"
        /\ Level(t) = ExclusiveLock
        /\ txState[t2] = "RolledBack"

\* C10: a transaction enters Exclusive only from Pending and Pending only
\* from Reserved, and no owner without a lock is given Shared while another
\* owner holds Pending.
C10_LadderStepByStep ==
    [][\A t \in TxIds :
         /\ (Level(t)' = ExclusiveLock /\ Level(t) # ExclusiveLock)
                => Level(t) = PendingLock
         /\ (Level(t)' = PendingLock /\ Level(t) # PendingLock)
                => Level(t) = ReservedLock
         /\ (Level(t)' = SharedLock /\ Level(t) = NoLock)
                => ~\E t2 \in TxIds \ {t} : Level(t2) = PendingLock]_vars

\* C11: transaction life cycle. A Transaction becomes Active only by a
\* successful BeginTransaction, which leaves it in the active set holding
\* Shared; an Active transaction changes state only to Committed, by a
\* successful CommitTransaction, or to RolledBack, by RollbackTransaction;
\* a transaction in one of these two states is not in the active set and
\* holds no lock.
C11_TransactionLifeCycle ==
    [][\A t \in TxIds :
         /\ (txState[t] # "Active" /\ txState'[t] = "Active")
                => /\ ret' = Ret("begin", t, 0, FALSE, Nil)
                   /\ t \in activeTransactions'
                   /\ Level(t)' = SharedLock
         /\ (txState[t] = "Active" /\ txState'[t] # "Active")
                => \/ /\ txState'[t] = "Committed"
                      /\ ret' = Ret("commit", t, 0, FALSE, Nil)
                   \/ /\ txState'[t] = "RolledBack"
                      /\ ret' = Ret("rollback", t, 0, FALSE, Nil)
         /\ (txState[t] \in {"Committed", "RolledBack"} /\ txState'[t] # txState[t])
                => txState'[t] = "Active"
         /\ txState'[t] \in {"Committed", "RolledBack"}
                => (t \notin activeTransactions' /\ Level(t)' = NoLock)]_vars

\* C11 happens: one transaction has been committed and the other rolled back,
\* and the last call was the commit.
C11_Witness ==
    \E t \in TxIds : \E t2 \in TxIds \ {t} :
        /\ txState[t] = "Committed"
        /\ txState[t2] = "RolledBack"
        /\ ret = Ret("commit", t, 0, FALSE, Nil)

\* C12: after every Put and Get that returns, the resident lists hold at most
\* capacity entries: |T1| + |T2| <= capacity.
C12_ResidentWithinCapacity ==
    ~cache.panic => Len(cache.t1_lru) + Len(cache.t2_lru) <= Capacity

\* C13: after every Put and Get that returns, the ghost lists hold at most
\* capacity entries: |B1| + |B2| <= capacity.
C13_GhostsWithinCapacity ==
    ~cache.panic => Len(cache.b1_lru) + Len(cache.b2_lru) <= Capacity

\* C14: the number of page ids whose bytes the cache still retains, in any of
\* its four lists, is at most capacity.
C14_RetainedBytesWithinCapacity ==
    Cardinality({q \in Pages : CachedBytes(cache, q) # Nil}) <= Capacity

\* C15: savepoint rollback restores pages. A GetPage(p) that a transaction
\* calls right after its successful RollbackToSavepoint(S) returns what p
\* held for the transaction when S was created: the bytes it had written to p
\* by then, or else the bytes committed when it began.
C15_RollbackToRestoresPages ==
    [][\A t \in TxIds :
         (/\ ret.op = "rollbackTo" /\ ret.tx = t /\ ~ret.err
          /\ ret'.op = "get" /\ ret'.tx = t /\ ret'.id \in Pages
          /\ rd.pc = "idle")
         => /\ ~ret'.err
            /\ ret'.page = IF txWrites[t][ret'.id] # Nil
                           THEN txWrites[t][ret'.id]
                           ELSE CommittedAt(txBegin[t])[ret'.id]]_vars

\* C16: the savepoint stack of a transaction never grows beyond the cap, and
\* a CreateSavepoint on a stack that is at the cap fails and leaves the stack
\* as it was.
C16_SavepointDepthCapped ==
    [][\A t \in TxIds :
         /\ Len(savepointStacks'[t]) <= MaxSavepoints
         /\ (ret'.op = "savepoint" /\ ret'.tx = t
             /\ Len(savepointStacks[t]) >= MaxSavepoints)
                => (ret'.err /\ savepointStacks'[t] = savepointStacks[t])]_vars

\* C17: savepoints live inside an active transaction. CreateSavepoint for an
\* id that is not an active transaction is refused, and an id that is not
\* active has an empty savepoint stack.
C17_SavepointsOnlyInActiveTransaction ==
    [][\A t \in TxIds :
         /\ (ret'.op = "savepoint" /\ ret'.tx = t /\ t \notin activeTransactions)
                => (ret'.err /\ savepointStacks'[t] = savepointStacks[t])
         /\ t \notin activeTransactions' => savepointStacks'[t] = <<>>]_vars

C19_FlushFailureKeepsDirty ==
    [][(up' /\ ret'.op = "flush" /\ ret'.err) =>
         /\ fl' = NoFl
         /\ disk' = disk
         /\ \A i \in 1..Len(fl.written) : fl.written[i] \in dirtyPages'
         /\ \A i \in 1..Len(fl.ids) : fl.ids[i] \in dirtyPages'
         /\ \A q \in Pages : CachedBytes(cache', q) = CachedBytes(cache, q)]_vars

\* C19 happens: the Sync of a flush that had written a page has failed, and
\* the pages are still dirty while the file is ahead of its synced image.
C19_Witness ==
    /\ ret = Ret("flush", "", 0, TRUE, Nil)
    /\ fl = NoFl
    /\ file # disk
    /\ dirtyPages # {}

\* C20: WritePage returns an error for page id 0 and for every buffer whose
\* length is not the page size, and such a call changes neither the cache,
\* the dirty set nor the page count.
C20_WritePageRejectsBadInput ==
    [][\A t \in TxIds, id \in 0..MaxPagerPage, v \in Vals, n \in Lens :
         (WritePageLen(t, id, v, n) /\ (id = 0 \/ n # pageSize))
             => (up' /\ ret'.err /\ UNCHANGED <<cache, dirtyPages, dbSize>>)]_vars

\* C21: when a refused commit closes a cycle of two transactions that each hold
\* Shared and each wait for Exclusive, the youngest of the two (the one that
\* began last) is aborted and its locks are released, so that the other one can
\* obtain Exclusive and commit.
C21_DeadlockYoungestAborted ==
    [][\A t \in TxIds : \A o \in TxIds \ {t} :
          (/\ {t, o} \subseteq activeTransactions
           /\ fileLocks[t].shared > 0
           /\ fileLocks[o].shared > 0
           /\ ret = Ret("commit", t, 0, TRUE, Nil)
           /\ ret' = Ret("commit", o, 0, TRUE, Nil))
          => /\ lastBegun \in {t, o}
             /\ lastBegun \notin activeTransactions'
             /\ fileLocks'[lastBegun].shared = 0
             /\ fileLocks'[lastBegun].exclusive = 0]_vars

\* C22: a successful commit of a transaction that wrote page 1 leaves the
\* file_change_counter of the header greater than it was in the last committed
\* database, and the first commit of a transaction that wrote any page leaves
\* it greater than 0.
C22_ChangeCounterIncreases ==
    [][\A t \in TxIds :
          (tmpc[t] = "commit" /\ ret' = Ret("commit", t, 0, FALSE, Nil))
          => /\ txWrites[t][1] # Nil
                => FileChangeCounter(HeaderPage')
                     > FileChangeCounter(CommittedAt(Len(commitLog))[1])
             /\ (commitLog = <<>> /\ txWrites[t] # NoWrites)
                => FileChangeCounter(HeaderPage') > 0]_vars

C25_HeaderRoundTrip ==
    /\ ret.op = "ReadThenBytes" => ret.out = ret.arg
    /\ ret.op = "BytesThenRead" => ret.out.err = "" /\ ret.out.h = ret.arg

\* C26: ParseDSN returns an error for every data source string whose query
\* holds an option whose name is not one of mode, cache, journal_mode,
\* busy_timeout, page_size, synchronous and foreign_keys (which ParseDSN
\* spells _journal_mode, _busy_timeout, _page_size, _synchronous and
\* _foreign_keys).
C26_UnknownOptionsRejected ==
    ret.op = "ParseDSN" =>
      ((\E k \in DOMAIN ret.arg.query :
            /\ k \notin OptionNames
            /\ k \notin {"journal_mode", "busy_timeout", "page_size", "synchronous",
                         "foreign_keys"}
            /\ ret.arg.query[k] # <<>>)
       => ret.out.err # "")

\* C27: for a data source string with no unknown option and a boolean for
\* foreign_keys, ParseDSN returns an error exactly when the scheme is not file,
\* when mode, cache, journal mode or synchronous has a value outside its set,
\* when busy_timeout is not a non-negative integer, or when page_size is not a
\* power of two in 512..65536; otherwise it returns a config with the values
\* given and, for the options not given, rwc, private, DELETE, 5000 ms, FULL
\* and false.
C27_OptionValidation ==
    ret.op = "ParseDSN" =>
      LET q == ret.arg.query
          r == ret.out
          Given(k, default) == IF q[k] # <<>> THEN q[k] ELSE default
          bad ==
            \/ ret.arg.scheme # "file"
            \/ q["mode"] \notin {<<>>, <<"r", "o">>, <<"r", "w">>, <<"r", "w", "c">>, <<"m", "e", "m", "o", "r", "y">>}
            \/ q["cache"] \notin {<<>>, <<"s", "h", "a", "r", "e", "d">>, <<"p", "r", "i", "v", "a", "t", "e">>}
            \/ q["_journal_mode"] \notin
                 {<<>>, <<"D", "E", "L", "E", "T", "E">>, <<"T", "R", "U", "N", "C", "A", "T", "E">>, <<"P", "E", "R", "S", "I", "S", "T">>,
                  <<"M", "E", "M", "O", "R", "Y">>, <<"W", "A", "L">>, <<"O", "F", "F">>}
            \/ q["_synchronous"] \notin {<<>>, <<"F", "U", "L", "L">>, <<"N", "O", "R", "M", "A", "L">>, <<"O", "F", "F">>}
            \/ q["_busy_timeout"] # <<>> /\ ParseDigits(q["_busy_timeout"]) = Nil
            \/ /\ q["_page_size"] # <<>>
               /\ ParseDigits(q["_page_size"])
                    \notin {512, 1024, 2048, 4096, 8192, 16384, 32768, 65536}
      IN  (q["foo"] = <<>> /\ q["_foreign_keys"] \in {<<>>, <<"t", "r", "u", "e">>, <<"0">>})
          => IF bad THEN r.err # ""
             ELSE /\ r.err = ""
                  /\ r.config.Mode = Given("mode", <<"r", "w", "c">>)
                  /\ r.config.Cache = Given("cache", <<"p", "r", "i", "v", "a", "t", "e">>)
                  /\ r.config.JournalMode = Given("_journal_mode", <<"D", "E", "L", "E", "T", "E">>)
                  /\ r.config.Synchronous = Given("_synchronous", <<"F", "U", "L", "L">>)
                  /\ r.config.BusyTimeout =
                       IF q["_busy_timeout"] # <<>> THEN ParseDigits(q["_busy_timeout"])
                       ELSE 5000
                  /\ q["_page_size"] # <<>>
                       => r.config.PageSize = ParseDigits(q["_page_size"])
                  /\ r.config.ForeignKeys = (q["_foreign_keys"] = <<"t", "r", "u", "e">>)

\* C23: every page size of the file format works from creation to reopen.
\* Open with that page size creates the file and, after Close, opens it again,
\* both times with a pager of that page size that puts page 2 at the offset
\* of one page; the header stores the size, and 1 for 65536; a file whose
\* header stores 1 opens with a pager of 65536 bytes a page.
C23_AllPageSizesSupported ==
    /\ ret.op = "OpenCreateReopen"
       => LET size == ParseDigits(ret.arg.query["_page_size"])
              r == ret.out
          IN  (size \in PageSizes /\ ret.arg.query["mode"] \in {<<>>, <<"r", "o">>}
                                  /\ ret.arg.query["_journal_mode"] \in {<<>>, <<"W", "A", "L">>})
              => /\ r.created.err = ""
                 /\ r.created.pageSize = size
                 /\ r.created.offset = size
                 /\ r.created.file[17] * 256 + r.created.file[18]
                      = IF size = 65536 THEN 1 ELSE size
                 /\ r.reopened.err = ""
                 /\ r.reopened.pageSize = size
                 /\ r.reopened.offset = size
    /\ (ret.op = "DefaultDatabaseHeader" /\ ret.arg = 65536) => ret.out.PageSize = 1
    /\ (ret.op = "OpenExisting" /\ ret.arg[17] * 256 + ret.arg[18] = 1
          /\ ReadDatabaseHeader(ret.arg).err = "")
       => ret.out.err = "" /\ ret.out.pageSize = 65536 /\ ret.out.offset = 65536

\* C28: a call of Open, Delete, Exists, Lock or Unlock reaches the base VFS
\* exactly when the path, with ".." taken out and the symbolic link followed,
\* is one of the paths given as allowed at construction or lies in the
\* directory of one of them.
C28_SandboxAllowList ==
    ret.op \in SandboxOps =>
      LET Canonical(path) == FollowLink(Clean(path))
          p == Canonical(ret.arg)
          allowed ==
            \E i \in 1..Len(sandbox.given) :
               LET g == Canonical(sandbox.given[i]) IN
               p = g \/ HasPrefix(p, g \o <<Separator>>)
      IN  ret.out.passed <=> allowed

\* C29: every call of replace that Put or Get makes and that returns moves the
\* LRU page of T1 to the MRU end of B1 exactly when |T1| > 0 and (|T1| > p, or
\* |T1| = p and the call serves a B2 hit); otherwise it leaves T1 alone and,
\* when T2 holds a page, moves the LRU page of T2 to the MRU end of B2.
C29_ReplacementRule ==
    ~cache.panic =>
      \A id \in Pages, put \in BOOLEAN :
        LET call == ReplaceCall(cache, id, put) IN
        ~call.none =>
          LET c == call.c
              r == replace(c, call.b2Hit)
              fromT1 == /\ Len(c.t1_lru) > 0
                        /\ \/ Len(c.t1_lru) > c.p
                           \/ Len(c.t1_lru) = c.p /\ call.b2Hit
              T1Evicted == /\ Len(c.t1_lru) > 0
                           /\ r.t1_lru = RemoveBack(c.t1_lru)
                           /\ Len(r.b1_lru) = Len(c.b1_lru) + 1
                           /\ Head(r.b1_lru).key = Back(c.t1_lru).key
                           /\ r.t2_lru = c.t2_lru /\ r.b2_lru = c.b2_lru
              T2Evicted == /\ Len(c.t2_lru) > 0
                           /\ r.t2_lru = RemoveBack(c.t2_lru)
                           /\ Len(r.b2_lru) = Len(c.b2_lru) + 1
                           /\ Head(r.b2_lru).key = Back(c.t2_lru).key
                           /\ r.t1_lru = c.t1_lru /\ r.b1_lru = c.b1_lru
          IN  ~r.panic =>
                IF fromT1 THEN T1Evicted
                ELSE r.t1_lru = c.t1_lru /\ (Len(c.t2_lru) > 0 => T2Evicted)

C31_GhostHitHandsBackNothing ==
    [][ret'.op = "cacheGet" /\ ~cache'.panic =>
         LET id == ret'.id
             resident == cache.t1_map[id] # Nil \/ cache.t2_map[id] # Nil
             ghost == ~resident /\ (cache.b1_map[id] # Nil \/ cache.b2_map[id] # Nil)
             g == Get(cache, id)
         IN  /\ g.ok => resident /\ ret'.page # Nil
             /\ ~resident => ret'.page = Nil
             /\ ghost => /\ cache'.p = IF cache.b1_map[id] # Nil
                                       THEN AdaptB1(cache).p ELSE AdaptB2(cache).p
                         /\ cache'.t2_map[id] # Nil
                         /\ Head(cache'.t2_lru).key = id]_vars

\* The place of a page id in a sequence of ids.
Place(seq, k) == CHOOSE i \in 1..Len(seq) : seq[i] = k

\* C32: a Put or Get of a page that is in T1 takes it out of T1 and makes it the
\* MRU of T2, one of a page that is in T2 makes it the MRU of T2, and a page
\* that a Put or Get evicts from T1 or T2 is the page of that list that was
\* accessed least recently.
C32_RecencyOrder ==
    [][ret'.op \in {"cachePut", "cacheGet"} /\ ~cache'.panic =>
         LET id == ret'.id
             Evicted(before, after) == (Keys(before) \ Keys(after)) \ {id}
             Oldest(l, k) ==
                 \A j \in Keys(l) : Place(accessed, k) >= Place(accessed, j)
         IN  /\ cache.t1_map[id] # Nil =>
                    /\ id \notin Keys(cache'.t1_lru)
                    /\ cache'.t2_lru # <<>> /\ Head(cache'.t2_lru).key = id
             /\ cache.t1_map[id] = Nil /\ cache.t2_map[id] # Nil =>
                    /\ cache'.t2_lru # <<>> /\ Head(cache'.t2_lru).key = id
             /\ \A k \in Evicted(cache.t1_lru, cache'.t1_lru) : Oldest(cache.t1_lru, k)
             /\ \A k \in Evicted(cache.t2_lru, cache'.t2_lru) : Oldest(cache.t2_lru, k)]_vars

\* C33: ReleaseSavepoint(T, name) cuts the stack of T just below the topmost
\* savepoint of that name, RollbackToSavepoint(T, name) cuts it just above
\* that savepoint, and both return an error and leave the stack as it is when
\* T has no savepoint of that name; the stacks of the other transactions stay.
C33_ReleaseAndRollbackToCutTheStack ==
    [][ret'.op \in {"releaseSavepoint", "rollbackTo"} =>
         LET t == ret'.tx
             stack == savepointStacks[t]
             Named == {i \in 1..Len(stack) : stack[i].name = ret'.name}
         IN  /\ \A o \in TxIds \ {t} : savepointStacks'[o] = savepointStacks[o]
             /\ IF Named = {}
                THEN ret'.err /\ savepointStacks'[t] = stack
                ELSE LET top == CHOOSE i \in Named : \A j \in Named : j <= i
                         kept == IF ret'.op = "rollbackTo" THEN top ELSE top - 1
                     IN  /\ ~ret'.err
                         /\ savepointStacks'[t] = [i \in 1..kept |-> stack[i]]]_vars

\* A ReleaseSavepoint has removed the younger of two savepoints of one name,
\* and the older one remains.
C33_Witness ==
    /\ ret.op = "releaseSavepoint"
    /\ ~ret.err
    /\ Len(savepointStacks[ret.tx]) = 1
    /\ savepointStacks[ret.tx][1].name = ret.name

\* C34: a CommitTransaction of an active transaction returns an error exactly
\* when another owner holds a Shared or an Exclusive lock; the refused
\* transaction stays Active in the active set with its locks as they were,
\* its Shared lock among them. A RollbackTransaction of an active transaction
\* is never refused.
C34_RefusedCommitCanBeRetried ==
    [][\A t \in activeTransactions :
         LET othersHold == \E o \in TxIds \ {t} :
                              fileLocks[o].shared > 0 \/ fileLocks[o].exclusive > 0
             called == tmpc[t] = "idle" /\ ret'.tx = t
         IN  /\ (called /\ ret'.op = "commit" /\ ret'.err) =>
                    /\ othersHold
                    /\ t \in activeTransactions'
                    /\ txState'[t] = "Active"
                    /\ fileLocks'[t] = fileLocks[t]
                    /\ fileLocks'[t].shared > 0
             /\ (tmpc[t] = "idle" /\ tmpc'[t] = "commit") =>
                    ~othersHold /\ fileLocks'[t].exclusive > 0
             /\ (called /\ ret'.op = "rollback") =>
                    ~ret'.err /\ t \notin activeTransactions']_vars

\* A commit has just been refused because the other transaction holds a lock.
C34_Witness ==
    \E t \in activeTransactions :
       /\ ret = Ret("commit", t, 0, TRUE, Nil)
       /\ txState[t] = "Active"
       /\ fileLocks[t].shared = 1
       /\ \E o \in TxIds \ {t} : fileLocks[o].exclusive > 0

\* C35: when a WritePage(p, B) has completed between the cache miss of a
\* GetPage(p) and the moment that GetPage stores what it read, then after the
\* GetPage has returned (B being resident until then) the cache still holds B
\* for p as a resident page, p is in the dirty set, and what FlushDirtyPages
\* gets from the cache for p is B.
C35_GetPageKeepsConcurrentWrite ==
    [][(/\ rd.pc = "put" /\ rd'.pc = "idle" /\ up'
        /\ latest[rd.id] # Nil
        /\ cache.t1_map[rd.id] = latest[rd.id] \/ cache.t2_map[rd.id] = latest[rd.id]) =>
         LET p == rd.id
             B == latest[p]
         IN  /\ ret' = Ret("get", rd.tx, p, FALSE, ret'.page)
             /\ cache'.t1_map[p] = B \/ cache'.t2_map[p] = B
             /\ p \in dirtyPages'
             /\ Get(cache', p).ok /\ Get(cache', p).page = B]_vars

\* C36: a WritePage(q, B) that completed while a FlushDirtyPages was running,
\* of a page q that was not in the list of dirty ids the flush took, is not
\* lost when the flush returns: q is in the dirty set or the file holds B.
C36_WriteDuringFlushNotLost ==
    [][(fl.pc # "idle" /\ fl'.pc = "idle" /\ up') =>
         \A q \in dirtyPages :
            LET listed == \/ \E i \in 1..Len(fl.written) : fl.written[i] = q
                          \/ \E j \in 1..Len(fl.ids) : fl.ids[j] = q
            IN  (~listed /\ latest[q] # Nil) =>
                    q \in dirtyPages' \/ file'[q] = latest[q]]_vars

\* C37: after every step, a Get of the cache for a page id of the dirty set
\* returns, reports a hit and hands back the bytes of the latest WritePage of
\* that page; and a turn of the loop of FlushDirtyPages finds its page in the
\* cache, does not panic, and, when its WriteAt succeeds, has written the
\* bytes of the latest WritePage of the page.
C37_DirtyPagesStayFetchable ==
    [][/\ up' => \A q \in dirtyPages' :
                    LET g == Get(cache', q)
                    IN  ~g.c.panic /\ g.ok /\ g.page = latest'[q]
       /\ (fl.pc = "write" /\ fl' # fl /\ up) =>
              LET id == Head(fl.ids) IN
              /\ up'
              /\ Get(cache, id).ok
              /\ fl'.pc # "idle" => file'[id] = latest[id]]_vars

C39_MapsAndListsAgree ==
    LET Indexed(map) == {id \in Pages : map[id] # Nil}
        Agree(l, map) ==
            /\ Keys(l) = Indexed(map)
            /\ Len(l) = Cardinality(Indexed(map))
            /\ \A i \in 1..Len(l) : ~l[i].wrapped
        all == <<cache.t1_lru, cache.t2_lru, cache.b1_lru, cache.b2_lru>>
    IN  /\ ~cache.panic
        /\ Agree(cache.t1_lru, cache.t1_map)
        /\ Agree(cache.t2_lru, cache.t2_map)
        /\ Agree(cache.b1_lru, cache.b1_map)
        /\ Agree(cache.b2_lru, cache.b2_map)
        /\ \A i \in 1..4 : \A j \in 1..4 :
              i # j => Keys(all[i]) \cap Keys(all[j]) = {}

====
